---- MODULE Spec2Model ----
(***************************************************************************)
(* Pacing engine of the teleprompter (src/src/App.jsx, second component    *)
(* definition, lines 510-1334): weight model, schedule builder and the     *)
(* playback clock with its countdown timers and animation frames.          *)
(*                                                                         *)
(* JavaScript numbers are modelled as exact rationals <<n, d>> (d > 0, in  *)
(* lowest terms) where the code divides, and as integers (milliseconds)    *)
(* where it only adds and subtracts.  null is the value Null.              *)
(***************************************************************************)
EXTENDS Integers, Sequences, FiniteSets, TLC

Null == -1

\* ------------------------------------------------------------------------
\* Bounds of the model
\* ------------------------------------------------------------------------
\* Date.now() at construction, the step of the wall clock and the last
\* clock reading explored.
StartClock == 1000
Quantum == 1000
MaxNow == 8000
\* Number of user commands explored in one behaviour.
MaxCmds == 4
\* Target duration entered by the user before the start (seconds field).
TargetSecs == 3
\* Layout supplied by the renderer: height of one rendered word and of the
\* viewport, in pixels.
WordHeight == 40
ViewportHeight == 60
\* Largest number typed into the minutes field.
MaxMinutes == 1

\* Number of pieces typed or pasted into the script field.
MaxPieces == 3

\* ------------------------------------------------------------------------
\* Program constants
\* ------------------------------------------------------------------------
CountdownFrom == 3
DelayT1 == 1000
DelayT2 == 2000
DelayT3 == 3000
DelayScroll == 50
\* Upper limit of the seconds field.
MaxSeconds == 59

\* ------------------------------------------------------------------------
\* Rational arithmetic (JavaScript number arithmetic, without rounding)
\* ------------------------------------------------------------------------
Abs(x) == IF x < 0 THEN -x ELSE x

Min(a, b) == IF a <= b THEN a ELSE b

Max(a, b) == IF a >= b THEN a ELSE b

RECURSIVE GCD(_, _)
GCD(a, b) == IF b = 0 THEN a ELSE GCD(b, a % b)

Sgn(x) == IF x < 0 THEN -1 ELSE 1

\* n / d with the common factor g divided out; d and g are positive.
Reduce(n, d, g) == <<n \div g, d \div g>>

\* The fraction n / d in lowest terms with a positive denominator.
Rat(n, d) == Reduce(Sgn(d) * n, Abs(d), GCD(Abs(n), Abs(d)))

RatInt(n) == <<n, 1>>

\* The operations cancel common factors before they multiply, to keep the
\* intermediate integers small; operands are in lowest terms and g is the
\* greatest common divisor of their denominators.
RatAddOver(p, q, g) ==
    Rat(p[1] * (q[2] \div g) + q[1] * (p[2] \div g), p[2] * (q[2] \div g))

RatAdd(p, q) == RatAddOver(p, q, GCD(p[2], q[2]))

RatSub(p, q) == RatAdd(p, <<-q[1], q[2]>>)

\* g1 divides p's numerator and q's denominator, g2 the other pair.
RatMulOver(p, q, g1, g2) ==
    <<(p[1] \div g1) * (q[1] \div g2), (p[2] \div g2) * (q[2] \div g1)>>

RatMul(p, q) ==
    IF p[1] = 0 \/ q[1] = 0 THEN RatInt(0)
    ELSE RatMulOver(p, q, GCD(Abs(p[1]), q[2]), GCD(Abs(q[1]), p[2]))

RatDiv(p, q) == RatMul(p, <<Sgn(q[1]) * q[2], Abs(q[1])>>)

\* Compares the whole parts and, when they are equal, the fractional parts.
RatLE(p, q) ==
    IF p[1] \div p[2] # q[1] \div q[2]
    THEN p[1] \div p[2] < q[1] \div q[2]
    ELSE (p[1] % p[2]) * q[2] <= (q[1] % q[2]) * p[2]

RatLT(p, q) == ~RatLE(q, p)

RatMin(p, q) == IF RatLE(p, q) THEN p ELSE q

RatMax(p, q) == IF RatLE(p, q) THEN q ELSE p

\* ------------------------------------------------------------------------
\* Characters
\* ------------------------------------------------------------------------
LowerLetters ==
    <<"a","b","c","d","e","f","g","h","i","j","k","l","m",
      "n","o","p","q","r","s","t","u","v","w","x","y","z">>

UpperLetters ==
    <<"A","B","C","D","E","F","G","H","I","J","K","L","M",
      "N","O","P","Q","R","S","T","U","V","W","X","Y","Z">>

Range(s) == {s[i] : i \in 1..Len(s)}

IsLower(c) == c \in Range(LowerLetters)

IsUpper(c) == c \in Range(UpperLetters)

\* String.prototype.toLowerCase on one character
ToLower(c) ==
    IF IsUpper(c)
    THEN LowerLetters[CHOOSE i \in 1..26 : UpperLetters[i] = c]
    ELSE c

Vowels == {"a", "e", "i", "o", "u", "y"}

\* ------------------------------------------------------------------------
\* Weight model
\* ------------------------------------------------------------------------
\* Number of positions i at which a vowel run begins (the for loop of
\* estimateSyllables).
VowelRuns(w) ==
    Cardinality({i \in 1..Len(w) :
        /\ w[i] \in Vowels
        /\ (i = 1 \/ w[i - 1] \notin Vowels)})

\* estimateSyllables applying the "le" increment before the silent-e
\* decrement.
estimateSyllablesLeFirst(word) ==
    LET lower == [i \in 1..Len(word) |-> ToLower(word[i])]
        w == SelectSeq(lower, IsLower)
        n == Len(w)
        c0 == VowelRuns(w)
        c1 == IF w[n] = "e" /\ w[n - 1] = "l" /\ n > 2 /\ w[n - 2] \notin Vowels
              THEN c0 + 1 ELSE c0
        c2 == IF w[n] = "e" /\ c1 > 1 THEN c1 - 1 ELSE c1
    IN  IF n <= 3 THEN 1 ELSE Max(1, c2)

\* estimateSyllables (lines 517-537)
estimateSyllables(word) ==
    LET lower == [i \in 1..Len(word) |-> ToLower(word[i])]
        w == SelectSeq(lower, IsLower)
        n == Len(w)
        c0 == VowelRuns(w)
        c1 == IF w[n] = "e" /\ c0 > 1 THEN c0 - 1 ELSE c0
        c2 == IF w[n] = "e" /\ w[n - 1] = "l" /\ n > 2 /\ w[n - 2] \notin Vowels
              THEN c1 + 1 ELSE c1
    IN  IF n <= 3 THEN 1 ELSE Max(1, c2)

SentenceEnd == {".", "!", "?"}

\* The last two stand for the em-dash and the en-dash.
ClauseEnd == {",", ";", ":", "EMDASH", "ENDASH"}

\* getWordWeight testing for sentence punctuation anywhere in the word, not
\* only at its end.
getWordWeightUnanchored(word, isBeforeLineBreak) ==
    LET cleanWord == SelectSeq(word, LAMBDA c : IsLower(c) \/ IsUpper(c))
        syllables == estimateSyllables(cleanWord)
        lengthFactor == RatMax(RatInt(1), Rat(Len(cleanWord), 4))
        base == RatAdd(RatMul(RatInt(syllables), Rat(7, 10)),
                       RatMul(lengthFactor, Rat(3, 10)))
        last == IF Len(word) = 0 THEN "" ELSE word[Len(word)]
        punct == IF Range(word) \cap SentenceEnd # {} THEN RatAdd(base, Rat(15, 10))
                 ELSE IF last \in ClauseEnd THEN RatAdd(base, Rat(8, 10))
                 ELSE base
    IN  IF isBeforeLineBreak THEN RatAdd(punct, RatInt(1)) ELSE punct

\* getWordWeight, as a rational.
getWordWeight(word, isBeforeLineBreak) ==
    LET cleanWord == SelectSeq(word, LAMBDA c : IsLower(c) \/ IsUpper(c))
        syllables == estimateSyllables(cleanWord)
        lengthFactor == RatMax(RatInt(1), Rat(Len(cleanWord), 4))
        base == RatAdd(RatMul(RatInt(syllables), Rat(7, 10)),
                       RatMul(lengthFactor, Rat(3, 10)))
        last == IF Len(word) = 0 THEN "" ELSE word[Len(word)]
        punct == IF last \in SentenceEnd THEN RatAdd(base, Rat(15, 10))
                 ELSE IF last \in ClauseEnd THEN RatAdd(base, Rat(8, 10))
                 ELSE base
    IN  IF isBeforeLineBreak THEN RatAdd(punct, RatInt(1)) ELSE punct

\* ------------------------------------------------------------------------
\* State of the App component
\* ------------------------------------------------------------------------
VARIABLES
    script,                 \* useState: the script text (a character sequence)
    probe,                  \* the last call of a function made on its own
    allWords,               \* useMemo: the flat token sequence of the script
    targetMinutes,          \* useState
    targetSeconds,          \* useState
    speakerSpeeds,          \* useState: speaker name -> speed (a rational)
    wordTimings,            \* useMemo: duration of each token (rationals, ms)
    wordStartTimes,         \* useMemo: start offset of each token
    isPlaying,              \* useState
    currentWordIndex,       \* useState
    showInput,              \* useState
    elapsedTime,            \* useState
    countdown,              \* useState
    wordPositions,          \* useState: the position snapshot
    pausedScrollY,          \* useState
    countdownTimeoutsRef,   \* useRef: ids of the tracked countdown timers
    animationRef,           \* useRef: id of the requested animation frame
    startTimeRef,           \* useRef: the anchor wall time
    transform,              \* style.transform of the mounted scroll-content
    timers,                 \* pending setTimeout callbacks, in creation order
    rafs,                   \* pending requestAnimationFrame callbacks, in order
    now,                    \* Date.now()
    lastCmd,                \* history: the last user command issued
    nCmds,                  \* history: number of user commands issued so far
    commandAt,              \* history: Date.now() at the last start, resume or restart
    pausedFrom,             \* history: what the last pause command interrupted
    pausedElapsed,          \* history: elapsedTime when that pause was issued
    sampledInRun,           \* history: a sample was taken in this Running period
    countdownDoneAt         \* history: Date.now() when a countdown's last timer last ran

inputVars ==
    <<script, probe, allWords, targetMinutes, targetSeconds, speakerSpeeds,
      wordTimings, wordStartTimes>>

playVars ==
    <<isPlaying, currentWordIndex, showInput, elapsedTime, countdown,
      wordPositions, pausedScrollY, countdownTimeoutsRef, animationRef,
      startTimeRef, transform, timers, rafs>>

histVars == <<lastCmd, nCmds, commandAt, pausedFrom, pausedElapsed, sampledInRun, countdownDoneAt>>

vars == <<inputVars, playVars, now, histVars>>

\* ------------------------------------------------------------------------
\* Script text and parsing
\* ------------------------------------------------------------------------
NL == "\n"

\* Characters String.prototype.trim and the regular expression \s remove.
WhiteSpace == {" ", NL, "\t"}

NoSpeaker == <<>>

\* s.slice(a - 1, b) for 1-based a and inclusive b.
Slice(s, a, b) == IF a > b THEN <<>> ELSE SubSeq(s, a, b)

\* s has the two characters c1 c2 at position i.
HasPairAt(s, i, c1, c2) == i >= 1 /\ i + 1 <= Len(s) /\ s[i] = c1 /\ s[i + 1] = c2

\* String.prototype.trim
Trim(s) ==
    LET solid == {i \in 1..Len(s) : s[i] \notin WhiteSpace}
    IN  IF solid = {} THEN <<>>
        ELSE LET a == CHOOSE i \in solid : \A j \in solid : i <= j
                 b == CHOOSE i \in solid : \A j \in solid : j <= i
             IN  SubSeq(s, a, b)

\* script.replace(/==(.*?)==/g, '$1') from position i on: at the leftmost
\* "==" that is followed on the same line by another "==", both are removed
\* and the scan continues after the second.
RECURSIVE StripHighlights(_, _)
StripHighlights(s, i) ==
    IF i > Len(s) THEN <<>>
    ELSE LET closers == {j \in (i + 2)..(Len(s) - 1) :
                            /\ HasPairAt(s, j, "=", "=")
                            /\ \A k \in (i + 2)..(j - 1) : s[k] # NL}
         IN  IF HasPairAt(s, i, "=", "=") /\ closers # {}
             THEN LET j == CHOOSE x \in closers : \A y \in closers : x <= y
                  IN  Slice(s, i + 2, j - 1)
                      \o StripHighlights(s, j + 2)
             ELSE <<s[i]>> \o StripHighlights(s, i + 1)

\* The matches of /\[([^\]]+)\]:/g from position i on.  start and end are
\* the 0-based match.index and match.index + match[0].length of the code.
RECURSIVE Markers(_, _)
Markers(s, i) ==
    IF i > Len(s) THEN <<>>
    ELSE LET closes == {k \in (i + 1)..Len(s) : s[k] = "]"}
             k == IF closes = {} THEN 0
                  ELSE CHOOSE x \in closes : \A y \in closes : x <= y
         IN  IF s[i] = "[" /\ k >= i + 2 /\ k + 1 <= Len(s) /\ s[k + 1] = ":"
             THEN <<[speaker |-> SubSeq(s, i + 1, k - 1), start |-> i - 1, end |-> k + 1]>>
                  \o Markers(s, k + 2)
             ELSE Markers(s, i + 1)

Section(speaker, content) == [speaker |-> speaker, content |-> content]

\* The forEach over the markers of parseScript (lines 617-626), from marker i.
RECURSIVE MarkerSections(_, _, _)
MarkerSections(cleaned, markers, i) ==
    IF i > Len(markers) THEN <<>>
    ELSE LET contentStart == markers[i].end
             contentEnd == IF i < Len(markers) THEN markers[i + 1].start ELSE Len(cleaned)
             content == Trim(Slice(cleaned, contentStart + 1, contentEnd))
         IN  (IF content # <<>> THEN <<Section(markers[i].speaker, content)>> ELSE <<>>)
             \o MarkerSections(cleaned, markers, i + 1)

\* parseScript pushing the section before the first marker without testing
\* its content.
parseScriptUntestedLead(text) ==
    LET cleaned == StripHighlights(text, 1)
        markers == Markers(cleaned, 1)
    IN  IF Len(markers) = 0
        THEN IF Trim(cleaned) # <<>> THEN <<Section(NoSpeaker, Trim(cleaned))>> ELSE <<>>
        ELSE LET content == Trim(Slice(cleaned, 1, markers[1].start))
                 before == IF markers[1].start > 0
                           THEN <<Section(NoSpeaker, content)>>
                           ELSE <<>>
             IN  before \o MarkerSections(cleaned, markers, 1)

parseScript(text) ==
    LET cleaned == StripHighlights(text, 1)
        markers == Markers(cleaned, 1)
    IN  IF Len(markers) = 0
        THEN IF Trim(cleaned) # <<>> THEN <<Section(NoSpeaker, Trim(cleaned))>> ELSE <<>>
        ELSE LET content == Trim(Slice(cleaned, 1, markers[1].start))
                 before == IF markers[1].start > 0 /\ content # <<>>
                           THEN <<Section(NoSpeaker, content)>>
                           ELSE <<>>
             IN  before \o MarkerSections(cleaned, markers, 1)

\* text.startsWith(p) and text.endsWith(p)
StartsWith(text, p) == Len(text) >= Len(p) /\ SubSeq(text, 1, Len(p)) = p

EndsWith(text, p) ==
    Len(text) >= Len(p) /\ SubSeq(text, Len(text) - Len(p) + 1, Len(text)) = p

\* text.slice(n, -n)
SliceBoth(text, n) == Slice(text, n + 1, Len(text) - n)

parseWordFormatting(word) ==
    LET bold == \/ StartsWith(word, <<"*", "*">>) /\ EndsWith(word, <<"*", "*">>)
                \/ StartsWith(word, <<"_", "_">>) /\ EndsWith(word, <<"_", "_">>)
        t1 == IF bold THEN SliceBoth(word, 2) ELSE word
        italic == \/ /\ StartsWith(t1, <<"*">>) /\ EndsWith(t1, <<"*">>)
                     /\ ~StartsWith(t1, <<"*", "*">>)
                  \/ /\ StartsWith(t1, <<"_">>) /\ EndsWith(t1, <<"_">>)
                     /\ ~StartsWith(t1, <<"_", "_">>)
        t2 == IF italic THEN SliceBoth(t1, 1) ELSE t1
    IN  [text |-> t2, bold |-> bold, italic |-> italic]

\* s.split(c) for a one-character separator, from position i on: the pieces
\* between the separators, empty pieces included.
RECURSIVE SplitOn(_, _, _)
SplitOn(s, seps, i) ==
    LET cuts == {k \in i..Len(s) : s[k] \in seps}
    IN  IF cuts = {} THEN <<Slice(s, i, Len(s))>>
        ELSE LET k == CHOOSE x \in cuts : \A y \in cuts : x <= y
             IN  <<Slice(s, i, k - 1)>> \o SplitOn(s, seps, k + 1)

\* line.trim().split(/\s+/).filter(w => w.length > 0)
LineWords(line) == SelectSeq(SplitOn(Trim(line), WhiteSpace, 1), LAMBDA w : Len(w) > 0)

\* parseWords flagging the first word of every line, the first line too.
RECURSIVE WordsOfLinesFirstLineToo(_, _)
WordsOfLinesFirstLineToo(lines, lineIndex) ==
    IF lineIndex >= Len(lines) THEN <<>>
    ELSE LET lineWords == LineWords(lines[lineIndex + 1])
         IN  [wordIndex \in 1..Len(lineWords) |->
                 LET formatted == parseWordFormatting(lineWords[wordIndex])
                 IN  [text |-> formatted.text, bold |-> formatted.bold,
                      italic |-> formatted.italic,
                      isLineStart |-> (wordIndex - 1 = 0)]]
             \o WordsOfLinesFirstLineToo(lines, lineIndex + 1)

\* The words of lines lineIndex.. of parseWords (lineIndex is 0-based).
RECURSIVE WordsOfLines(_, _)
WordsOfLines(lines, lineIndex) ==
    IF lineIndex >= Len(lines) THEN <<>>
    ELSE LET lineWords == LineWords(lines[lineIndex + 1])
         IN  [wordIndex \in 1..Len(lineWords) |->
                 LET formatted == parseWordFormatting(lineWords[wordIndex])
                 IN  [text |-> formatted.text, bold |-> formatted.bold,
                      italic |-> formatted.italic,
                      isLineStart |-> (wordIndex - 1 = 0 /\ lineIndex > 0)]]
             \o WordsOfLines(lines, lineIndex + 1)

parseWords(content) == WordsOfLines(SplitOn(content, {NL}, 1), 0)

\* The words of sections i.. with their speaker (the allWords memo, lines
\* 699-718).
RECURSIVE FlattenSections(_, _)
FlattenSections(sections, i) ==
    IF i > Len(sections) THEN <<>>
    ELSE LET words == parseWords(sections[i].content)
         IN  [k \in 1..Len(words) |->
                 [text |-> words[k].text, bold |-> words[k].bold,
                  italic |-> words[k].italic, isLineStart |-> words[k].isLineStart,
                  speaker |-> sections[i].speaker]]
             \o FlattenSections(sections, i + 1)

AllWordsMemo(text) == FlattenSections(parseScript(text), 1)

\* A token of the flat sequence.  Texts and speaker names are sequences of
\* one-character strings; the empty sequence stands for speaker null.
Token(text, isLineStart, speaker) ==
    [text |-> text, bold |-> FALSE, italic |-> FALSE,
     isLineStart |-> isLineStart, speaker |-> speaker]

\* "[A]:\nhello world.\nbye" : three tokens of speaker A, the third on a
\* second line.
ScriptHelloWorldBye ==
    <<Token(<<"h","e","l","l","o">>, FALSE, <<"A">>),
      Token(<<"w","o","r","l","d",".">>, FALSE, <<"A">>),
      Token(<<"b","y","e">>, TRUE, <<"A">>)>>

Scripts == {<<>>, ScriptHelloWorldBye}

\* The script text of ScriptHelloWorldBye.
TextHelloWorldBye ==
    <<"[","A","]",":",NL,"h","e","l","l","o"," ","w","o","r","l","d",".",NL,"b","y","e">>

NoProbe == [fn |-> "none"]

\* ------------------------------------------------------------------------
\* Schedule builder
\* ------------------------------------------------------------------------
totalWords == Len(allWords)

\* targetTimeMs of a render with the given minutes and seconds (line 772).
TargetMs(minutes, seconds) == (minutes * 60 + seconds) * 1000

targetTimeMs == TargetMs(targetMinutes, targetSeconds)

\* The property key a speaker is looked up with: null becomes "null".
SpeakerKey(speaker) == IF speaker = NoSpeaker THEN <<"n","u","l","l">> ELSE speaker

\* speakerSpeeds[speaker] || 1.0
SpeedIn(speeds, speaker) ==
    LET key == SpeakerKey(speaker)
    IN  IF key \in DOMAIN speeds /\ speeds[key][1] # 0
        THEN speeds[key]
        ELSE RatInt(1)

getSpeakerSpeed(speaker) == SpeedIn(speakerSpeeds, speaker)

\* The weights array with the weight multiplied by the speaker's speed.
WeightsTimesSpeed(words, speeds) ==
    [i \in 1..Len(words) |->
        LET isBeforeLineBreak == i < Len(words) /\ words[i + 1].isLineStart
            weight == getWordWeight(words[i].text, isBeforeLineBreak)
            speed == SpeedIn(speeds, words[i].speaker)
        IN  RatMul(weight, speed)]

\* The weights array with the line-break pause given to the token that
\* starts a line instead of the token before it.
WeightsPauseOnLineStart(words, speeds) ==
    [i \in 1..Len(words) |->
        LET isBeforeLineBreak == words[i].isLineStart
            weight == getWordWeight(words[i].text, isBeforeLineBreak)
            speed == SpeedIn(speeds, words[i].speaker)
        IN  RatDiv(weight, speed)]

\* The weights array of the wordTimings memo (lines 776-786) for the given
\* tokens and speed map.
Weights(words, speeds) ==
    [i \in 1..Len(words) |->
        LET isBeforeLineBreak == i < Len(words) /\ words[i + 1].isLineStart
            weight == getWordWeight(words[i].text, isBeforeLineBreak)
            speed == SpeedIn(speeds, words[i].speaker)
        IN  RatDiv(weight, speed)]

WordWeights == Weights(allWords, speakerSpeeds)

\* Sum of the first n entries of a sequence of rationals.
RECURSIVE RatSum(_, _)
RatSum(s, n) ==
    IF n = 0 THEN RatInt(0)
    ELSE LET rest == RatSum(s, n - 1) IN RatAdd(rest, s[n])

\* The wordTimings memo normalising against the total of the weights before
\* the division by the speaker's speed.
TimingsUnscaledTotal(words, targetMs, speeds) ==
    LET weights == Weights(words, speeds)
        unscaled == Weights(words, <<>>)
        totalWeight == RatSum(unscaled, Len(unscaled))
        target == RatInt(targetMs)
    IN  [i \in 1..Len(weights) |->
            IF RatLT(RatInt(0), totalWeight)
            THEN RatMul(RatDiv(weights[i], totalWeight), target)
            ELSE RatInt(0)]

\* The value the wordTimings memo computes (lines 775-791) from the given
\* tokens, target and speed map.
Timings(words, targetMs, speeds) ==
    LET weights == Weights(words, speeds)
        totalWeight == RatSum(weights, Len(weights))
        target == RatInt(targetMs)
    IN  [i \in 1..Len(weights) |->
            IF RatLT(RatInt(0), totalWeight)
            THEN RatMul(RatDiv(weights[i], totalWeight), target)
            ELSE RatInt(0)]

WordTimingsMemo == Timings(allWords, targetTimeMs, speakerSpeeds)

\* The wordStartTimes memo pushing the running sum after adding the
\* duration of the token.
WordStartTimesMemoInclusive(timings) == [i \in 1..Len(timings) |-> RatSum(timings, i)]

\* The value the wordStartTimes memo computes from wordTimings (lines
\* 794-802): startTimes[i] is the sum of the durations before token i.
WordStartTimesMemo(timings) == [i \in 1..Len(timings) |-> RatSum(timings, i - 1)]

\* Index (0-based, as in the code) of the word active at an elapsed time.
RECURSIVE WordIndexFrom(_, _, _)
WordIndexFrom(starts, elapsed, i) ==
    IF i < 0 THEN 0
    ELSE IF RatLE(starts[i + 1], elapsed) THEN i
    ELSE WordIndexFrom(starts, elapsed, i - 1)

\* getWordIndexAtTime with the comparison elapsed > wordStartTimes[i].
getWordIndexAtTimeExclusive(elapsed) ==
    LET started == {i \in 0..(Len(wordStartTimes) - 1) :
                       RatLT(wordStartTimes[i + 1], elapsed)}
    IN  IF started = {} THEN 0
        ELSE CHOOSE i \in started : \A j \in started : j <= i

\* getWordIndexAtTime returning the last index, not 0, when the scan finds
\* no start offset at or before elapsed.
getWordIndexAtTimeFallsToLast(elapsed) ==
    LET started == {i \in 0..(Len(wordStartTimes) - 1) :
                       RatLE(wordStartTimes[i + 1], elapsed)}
    IN  IF started = {} THEN Max(0, Len(wordStartTimes) - 1)
        ELSE CHOOSE i \in started : \A j \in started : j <= i

getWordIndexAtTime(elapsed) ==
    WordIndexFrom(wordStartTimes, elapsed, Len(wordStartTimes) - 1)

\* ------------------------------------------------------------------------
\* Renderer: mounted elements and the position snapshot
\* ------------------------------------------------------------------------
\* Which branch of the JSX is mounted (lines 1133, 1300).
View(input, playing, cd) ==
    IF input THEN "input"
    ELSE IF playing \/ cd # Null THEN "playing"
    ELSE "paused"

\* style.transform of the scroll-content element: px is TRUE for
\* "translateY(-<y>px)", FALSE for "" and for "translateY(0)".
NoTransform == [px |-> FALSE, y |-> RatInt(0)]

TranslateY(y) == [px |-> TRUE, y |-> y]

\* The scroll-content element is re-created when the mounted branch changes.
Mounted(tr, oldView, newView) == IF oldView = newView THEN tr ELSE NoTransform

\* Number of line breaks before token i (1-based): its line in the layout.
LineOf(i) == Cardinality({j \in 1..i : allWords[j].isLineStart})

\* measureWordPositions: empty when the refs are not mounted.
measureWordPositions ==
    IF showInput THEN <<>>
    ELSE [i \in 1..Len(allWords) |->
            [top |-> RatInt(LineOf(i) * WordHeight),
             center |-> RatAdd(RatInt(LineOf(i) * WordHeight), Rat(WordHeight, 2))]]

\* wordDisplayRef.current?.clientHeight || 0
containerHeight == IF showInput THEN 0 ELSE ViewportHeight

\* positions[idx]?.center || fallback   (idx is 0-based)
CenterOr(positions, idx, fallback) ==
    IF idx + 1 \in 1..Len(positions) /\ positions[idx + 1].center[1] # 0
    THEN positions[idx + 1].center
    ELSE fallback

\* wordProgress of getScrollPositionAtTime (lines 858-861) for the token
\* currentIdx (0-based): progress through the current word.
WordProgress(elapsed, currentIdx) ==
    IF RatLT(RatInt(0), wordTimings[currentIdx + 1])
    THEN RatMin(RatDiv(RatSub(elapsed, wordStartTimes[currentIdx + 1]),
                       wordTimings[currentIdx + 1]), RatInt(1))
    ELSE RatInt(0)

\* getScrollPositionAtTime without the lower bound 0 of its result.
getScrollPositionAtTimeUnclamped(elapsed, positions) ==
    IF Len(positions) = 0 THEN RatInt(0)
    ELSE
        LET currentIdx == getWordIndexAtTime(elapsed)
            nextIdx == Min(currentIdx + 1, Len(positions) - 1)
            wordProgress == WordProgress(elapsed, currentIdx)
            currentY == CenterOr(positions, currentIdx, RatInt(0))
            nextY == CenterOr(positions, nextIdx, currentY)
            interpolatedY == RatAdd(currentY, RatMul(RatSub(nextY, currentY), wordProgress))
        IN  RatSub(interpolatedY, Rat(containerHeight, 2))

getScrollPositionAtTime(elapsed, positions) ==
    IF Len(positions) = 0 THEN RatInt(0)
    ELSE
        LET currentIdx == getWordIndexAtTime(elapsed)
            nextIdx == Min(currentIdx + 1, Len(positions) - 1)
            wordProgress == WordProgress(elapsed, currentIdx)
            currentY == CenterOr(positions, currentIdx, RatInt(0))
            nextY == CenterOr(positions, nextIdx, currentY)
            interpolatedY == RatAdd(currentY, RatMul(RatSub(nextY, currentY), wordProgress))
        IN  RatMax(RatInt(0), RatSub(interpolatedY, Rat(containerHeight, 2)))

\* ------------------------------------------------------------------------
\* Timers and animation frames
\* ------------------------------------------------------------------------
MaxOf(S) == IF S = {} THEN 0 ELSE CHOOSE m \in S : \A x \in S : x <= m

Ids(q) == {q[i].id : i \in 1..Len(q)}

\* Id returned by setTimeout: not the id of a pending or a tracked timer.
NewTimerId(q) == 1 + MaxOf(Ids(q) \cup countdownTimeoutsRef)

\* Id returned by requestAnimationFrame: positive, and not the id of a
\* pending frame or of the frame the ref names.
NewRafId(q, ref) == 1 + MaxOf(Ids(q) \cup {ref, 0})

\* A pending setTimeout callback.  elapsed and scrollY are the values of
\* elapsedTime and pausedScrollY its closure captured (used by the resume
\* callbacks only).
Timer(id, origin, kind, delay, val, elapsed, scrollY) ==
    [id |-> id, origin |-> origin, kind |-> kind, due |-> now + delay,
     val |-> val, elapsed |-> elapsed, scrollY |-> scrollY]

Raf(id, kind, elapsed) == [id |-> id, kind |-> kind, elapsed |-> elapsed]

RemoveAt(q, k) == [i \in 1..(Len(q) - 1) |-> IF i < k THEN q[i] ELSE q[i + 1]]

\* The pending timer the event loop runs next: due, and first by (due, creation).
DueFirst(k) ==
    /\ k \in 1..Len(timers)
    /\ timers[k].due <= now
    /\ \A j \in 1..Len(timers) :
          j # k => \/ timers[j].due > timers[k].due
                   \/ (timers[j].due = timers[k].due /\ j > k)

\* clearTimeout of every tracked id
ClearTracked(q) == SelectSeq(q, LAMBDA t : t.id \notin countdownTimeoutsRef)

\* stopAnimation that clears the ref without cancelling the frame.
StopRafsWithoutCancel(q, ref) == q

\* stopAnimation: the pending frames after cancelAnimationFrame(animationRef.current)
StopRafs(q, ref) == IF ref # Null THEN SelectSeq(q, LAMBDA r : r.id # ref) ELSE q

\* The animation effect that never requests a frame.
AnimationEffectNeverRequests(q, ref, playing, positions) ==
    [rafs |-> StopRafs(q, ref), ref |-> Null]

\* The animation effect re-run after a render in which isPlaying or
\* wordPositions changed: cleanup (stopAnimation), then the effect body.
AnimationEffect(q, ref, playing, positions) ==
    LET q1 == StopRafs(q, ref)
        id == NewRafId(q1, Null)
    IN  IF playing /\ Len(positions) > 0
        THEN [rafs |-> Append(q1, Raf(id, "runAnimation", 0)), ref |-> id]
        ELSE [rafs |-> q1, ref |-> Null]

\* ------------------------------------------------------------------------
\* Initial state (lines 663-675, 808-812)
\* ------------------------------------------------------------------------
\* The playback state after construction (lines 668-675, 808-812).
IdleView ==
    /\ isPlaying = FALSE
    /\ currentWordIndex = -1
    /\ showInput = TRUE
    /\ elapsedTime = 0
    /\ countdown = Null
    /\ wordPositions = <<>>
    /\ pausedScrollY = RatInt(0)
    /\ countdownTimeoutsRef = {}
    /\ animationRef = Null
    /\ startTimeRef = Null
    /\ transform = NoTransform
    /\ timers = <<>>
    /\ rafs = <<>>
    /\ now = StartClock
    /\ lastCmd = "none"
    /\ nCmds = 0
    /\ commandAt = Null
    /\ pausedFrom = "none"
    /\ pausedElapsed = 0
    /\ sampledInRun = FALSE
    /\ countdownDoneAt = Null

Init ==
    /\ script \in {<<>>, TextHelloWorldBye}
    /\ probe = NoProbe
    /\ allWords \in Scripts
    /\ allWords = AllWordsMemo(script)
    /\ targetMinutes = 0
    /\ targetSeconds = TargetSecs
    /\ speakerSpeeds = <<>>
    /\ wordTimings = WordTimingsMemo
    /\ wordStartTimes = WordStartTimesMemo(wordTimings)
    /\ IdleView

\* ------------------------------------------------------------------------
\* User commands
\* ------------------------------------------------------------------------
\* Bookkeeping of a user command c.
Command(c) ==
    /\ nCmds < MaxCmds
    /\ nCmds' = nCmds + 1
    /\ lastCmd' = c
    /\ commandAt' = IF c \in {"start", "resume", "restart"} THEN now ELSE commandAt
    /\ sampledInRun' = FALSE
    /\ UNCHANGED countdownDoneAt

\* The three timers of a countdown, with ids from id on.
CountdownTimers(id, origin, elapsed) ==
    <<Timer(id, origin, "setCountdown", DelayT1, 2, 0, RatInt(0)),
      Timer(id + 1, origin, "setCountdown", DelayT2, 1, 0, RatInt(0)),
      Timer(id + 2, origin, "t3", DelayT3, Null, elapsed, RatInt(0))>>

\* handleStart without the early return of line 923 (a variant used to test
\* the no-op property of start on an empty token list).
handleStartUnguarded ==
    /\ showInput
    /\ Command("start")
    /\ showInput' = FALSE
    /\ currentWordIndex' = 0
    /\ countdown' = CountdownFrom
    /\ timers' = timers \o CountdownTimers(NewTimerId(timers), "start", 0)
    /\ transform' = NoTransform
    /\ pausedFrom' = "none"
    /\ pausedElapsed' = 0
    /\ UNCHANGED <<isPlaying, elapsedTime, wordPositions, pausedScrollY,
                   countdownTimeoutsRef, animationRef, startTimeRef, rafs>>
    /\ UNCHANGED <<inputVars, now>>

\* handleStart (lines 922-937).  The Start button is rendered in the input
\* view; the three timers are not recorded in countdownTimeoutsRef.
handleStart ==
    /\ showInput
    /\ Command("start")
    /\ IF Len(allWords) = 0
       THEN UNCHANGED <<playVars, pausedFrom, pausedElapsed>>
       ELSE /\ showInput' = FALSE
            /\ currentWordIndex' = 0
            /\ countdown' = CountdownFrom
            /\ timers' = timers \o CountdownTimers(NewTimerId(timers), "start", 0)
            /\ transform' = NoTransform
            /\ pausedFrom' = "none"
            /\ pausedElapsed' = 0
            /\ UNCHANGED <<isPlaying, elapsedTime, wordPositions, pausedScrollY,
                           countdownTimeoutsRef, animationRef, startTimeRef, rafs>>
    /\ UNCHANGED <<inputVars, now>>

\* handlePause that also clears the anchor (a variant used to test that the
\* pause command keeps it).
handlePauseClearsAnchor ==
    /\ ~showInput
    /\ isPlaying \/ countdown # Null
    /\ Command("pause")
    /\ pausedFrom' = IF countdown # Null THEN "countdown" ELSE "running"
    /\ pausedElapsed' = elapsedTime
    /\ timers' = ClearTracked(timers)
    /\ countdownTimeoutsRef' = {}
    /\ countdown' = Null
    /\ pausedScrollY' = IF transform.px THEN transform.y ELSE pausedScrollY
    /\ isPlaying' = FALSE
    /\ rafs' = StopRafs(rafs, animationRef)
    /\ animationRef' = Null
    /\ transform' = NoTransform
    /\ startTimeRef' = Null
    /\ UNCHANGED <<currentWordIndex, showInput, elapsedTime, wordPositions>>
    /\ UNCHANGED <<inputVars, now>>

\* handlePause, with cancelCountdown and stopAnimation.  The Pause button is
\* rendered while isPlaying or a countdown is shown (line 1282).
handlePause ==
    /\ ~showInput
    /\ isPlaying \/ countdown # Null
    /\ Command("pause")
    /\ pausedFrom' = IF countdown # Null THEN "countdown" ELSE "running"
    /\ pausedElapsed' = elapsedTime
    /\ timers' = ClearTracked(timers)
    /\ countdownTimeoutsRef' = {}
    /\ countdown' = Null
    /\ pausedScrollY' = IF transform.px THEN transform.y ELSE pausedScrollY
    /\ isPlaying' = FALSE
    /\ rafs' = StopRafs(rafs, animationRef)
    /\ animationRef' = Null
    /\ transform' = NoTransform
    /\ UNCHANGED <<currentWordIndex, showInput, elapsedTime, wordPositions, startTimeRef>>
    /\ UNCHANGED <<inputVars, now>>

\* handleResume.  The Resume button replaces the Pause button (line 1287).
handleResume ==
    /\ ~showInput
    /\ ~(isPlaying \/ countdown # Null)
    /\ Command("resume")
    /\ UNCHANGED <<pausedFrom, pausedElapsed>>
    /\ IF currentWordIndex >= 0
       THEN LET q == ClearTracked(timers)
                id == 1 + MaxOf(Ids(q))
                new == <<Timer(id, "resume", "scroll", DelayScroll, Null, 0, pausedScrollY)>>
                       \o CountdownTimers(id + 1, "resume", elapsedTime)
            IN  /\ timers' = q \o new
                /\ countdownTimeoutsRef' = Ids(new)
                /\ countdown' = CountdownFrom
                /\ transform' = NoTransform
       ELSE UNCHANGED <<timers, countdownTimeoutsRef, countdown, transform>>
    /\ UNCHANGED <<isPlaying, currentWordIndex, showInput, elapsedTime, wordPositions,
                   pausedScrollY, animationRef, startTimeRef, rafs>>
    /\ UNCHANGED <<inputVars, now>>

handleRestart ==
    /\ ~showInput
    /\ Command("restart")
    /\ pausedFrom' = "none"
    /\ pausedElapsed' = 0
    /\ LET q == ClearTracked(timers)
           new == CountdownTimers(1 + MaxOf(Ids(q)), "restart", 0)
       IN  /\ timers' = q \o new
           /\ countdownTimeoutsRef' = Ids(new)
    /\ rafs' = StopRafs(rafs, animationRef)
    /\ animationRef' = Null
    /\ isPlaying' = FALSE
    /\ currentWordIndex' = 0
    /\ elapsedTime' = 0
    /\ pausedScrollY' = RatInt(0)
    /\ transform' = NoTransform
    /\ countdown' = CountdownFrom
    /\ UNCHANGED <<showInput, wordPositions, startTimeRef>>
    /\ UNCHANGED <<inputVars, now>>

\* handleExit (Exit button, or the Escape key while the input is hidden).
handleExit ==
    /\ ~showInput
    /\ Command("exit")
    /\ pausedFrom' = "none"
    /\ pausedElapsed' = 0
    /\ isPlaying' = FALSE
    /\ currentWordIndex' = -1
    /\ elapsedTime' = 0
    /\ showInput' = TRUE
    /\ wordPositions' = <<>>
    /\ pausedScrollY' = RatInt(0)
    /\ rafs' = StopRafs(rafs, animationRef)
    /\ animationRef' = Null
    /\ startTimeRef' = Null
    /\ transform' = NoTransform
    /\ UNCHANGED <<countdown, countdownTimeoutsRef, timers>>
    /\ UNCHANGED <<inputVars, now>>

\* ------------------------------------------------------------------------
\* Timer callbacks
\* ------------------------------------------------------------------------
\* () => setCountdown(2) and () => setCountdown(1) of the three handlers
\* (lines 928-929, 976-977, 1019-1020).
TimerSetCountdown ==
    \E k \in 1..Len(timers) :
        /\ DueFirst(k)
        /\ timers[k].kind = "setCountdown"
        /\ countdown' = timers[k].val
        /\ timers' = RemoveAt(timers, k)
        /\ transform' = Mounted(transform, View(showInput, isPlaying, countdown),
                                View(showInput, isPlaying, timers[k].val))
        /\ UNCHANGED <<isPlaying, currentWordIndex, showInput, elapsedTime, wordPositions,
                       pausedScrollY, countdownTimeoutsRef, animationRef, startTimeRef, rafs>>
        /\ UNCHANGED <<inputVars, now, histVars>>

\* The 50 ms timer of handleResume (lines 970-974).
TimerResumeScroll ==
    \E k \in 1..Len(timers) :
        /\ DueFirst(k)
        /\ timers[k].kind = "scroll"
        /\ timers' = RemoveAt(timers, k)
        /\ transform' = IF showInput THEN transform ELSE TranslateY(timers[k].scrollY)
        /\ UNCHANGED <<isPlaying, currentWordIndex, showInput, elapsedTime, countdown,
                       wordPositions, pausedScrollY, countdownTimeoutsRef, animationRef,
                       startTimeRef, rafs>>
        /\ UNCHANGED <<inputVars, now, histVars>>

\* The last timer of handleStart's countdown (lines 930-936), up to its
\* requestAnimationFrame call.  Its id is in no ref: nothing can clear it.
StartT3 ==
    \E k \in 1..Len(timers) :
        /\ DueFirst(k)
        /\ timers[k].kind = "t3"
        /\ timers[k].origin = "start"
        /\ countdown' = Null
        /\ timers' = RemoveAt(timers, k)
        /\ rafs' = Append(rafs, Raf(NewRafId(rafs, animationRef), "start", 0))
        /\ transform' = Mounted(transform, View(showInput, isPlaying, countdown),
                                View(showInput, isPlaying, Null))
        /\ UNCHANGED <<isPlaying, currentWordIndex, showInput, elapsedTime, wordPositions,
                       pausedScrollY, countdownTimeoutsRef, animationRef, startTimeRef>>
        /\ countdownDoneAt' = now
        /\ UNCHANGED <<inputVars, now, lastCmd, nCmds, commandAt, pausedFrom, pausedElapsed, sampledInRun>>

\* The last timer of handleResume's countdown (lines 978-997), up to its
\* requestAnimationFrame call.  elapsedTime is the value its closure captured.
ResumeT3 ==
    \E k \in 1..Len(timers) :
        /\ DueFirst(k)
        /\ timers[k].kind = "t3"
        /\ timers[k].origin = "resume"
        /\ countdown' = Null
        /\ timers' = RemoveAt(timers, k)
        /\ startTimeRef' = now - timers[k].elapsed
        /\ rafs' = Append(rafs, Raf(NewRafId(rafs, animationRef), "resume", timers[k].elapsed))
        /\ transform' = Mounted(transform, View(showInput, isPlaying, countdown),
                                View(showInput, isPlaying, Null))
        /\ UNCHANGED <<isPlaying, currentWordIndex, showInput, elapsedTime, wordPositions,
                       pausedScrollY, countdownTimeoutsRef, animationRef>>
        /\ countdownDoneAt' = now
        /\ UNCHANGED <<inputVars, now, lastCmd, nCmds, commandAt, pausedFrom, pausedElapsed, sampledInRun>>

\* The last timer of handleRestart's countdown (lines 1021-1031), up to its
\* requestAnimationFrame call.
RestartT3 ==
    \E k \in 1..Len(timers) :
        /\ DueFirst(k)
        /\ timers[k].kind = "t3"
        /\ timers[k].origin = "restart"
        /\ countdown' = Null
        /\ timers' = RemoveAt(timers, k)
        /\ startTimeRef' = now
        /\ rafs' = Append(rafs, Raf(NewRafId(rafs, animationRef), "restart", 0))
        /\ transform' = Mounted(transform, View(showInput, isPlaying, countdown),
                                View(showInput, isPlaying, Null))
        /\ UNCHANGED <<isPlaying, currentWordIndex, showInput, elapsedTime, wordPositions,
                       pausedScrollY, countdownTimeoutsRef, animationRef>>
        /\ countdownDoneAt' = now
        /\ UNCHANGED <<inputVars, now, lastCmd, nCmds, commandAt, pausedFrom, pausedElapsed, sampledInRun>>

\* ------------------------------------------------------------------------
\* Animation-frame callbacks (run in the order they were requested), each
\* with the render that follows it and the animation effect (lines 904-909)
\* ------------------------------------------------------------------------
\* History: a frame callback that sets isPlaying opens a Running period when
\* playback was not running.
EnterRunning ==
    /\ sampledInRun' = IF isPlaying THEN sampledInRun ELSE FALSE
    /\ UNCHANGED <<lastCmd, nCmds, commandAt, pausedFrom, pausedElapsed, countdownDoneAt>>

\* startPlayback that leaves the anchor as it was (a variant used to test
\* that the start countdown ends with the anchor at the current time).
startPlaybackKeepsAnchor ==
    /\ Len(rafs) > 0
    /\ rafs[1].kind = "start"
    /\ LET positions == measureWordPositions
           eff == AnimationEffect(Tail(rafs), animationRef, TRUE, positions)
       IN  /\ wordPositions' = positions
           /\ rafs' = eff.rafs
           /\ animationRef' = eff.ref
    /\ currentWordIndex' = 0
    /\ elapsedTime' = 0
    /\ isPlaying' = TRUE
    /\ transform' = Mounted(transform, View(showInput, isPlaying, countdown),
                            View(showInput, TRUE, countdown))
    /\ UNCHANGED <<showInput, countdown, pausedScrollY, countdownTimeoutsRef, timers,
                   startTimeRef>>
    /\ sampledInRun' = IF isPlaying THEN sampledInRun ELSE FALSE
    /\ UNCHANGED <<lastCmd, nCmds, commandAt, pausedFrom, pausedElapsed, countdownDoneAt>>
    /\ UNCHANGED <<inputVars, now>>

\* startPlayback without setWordPositions(positions).
startPlaybackKeepsSnapshot ==
    /\ Len(rafs) > 0
    /\ rafs[1].kind = "start"
    /\ LET eff == AnimationEffect(Tail(rafs), animationRef, TRUE, wordPositions)
       IN  /\ wordPositions' = wordPositions
           /\ rafs' = eff.rafs
           /\ animationRef' = eff.ref
    /\ currentWordIndex' = 0
    /\ elapsedTime' = 0
    /\ startTimeRef' = now
    /\ isPlaying' = TRUE
    /\ transform' = Mounted(transform, View(showInput, isPlaying, countdown),
                            View(showInput, TRUE, countdown))
    /\ UNCHANGED <<showInput, countdown, pausedScrollY, countdownTimeoutsRef, timers>>
    /\ EnterRunning
    /\ UNCHANGED <<inputVars, now>>

\* startPlayback, called from the frame handleStart's last timer requested
\* (lines 911-920, 933-935).
startPlayback ==
    /\ Len(rafs) > 0
    /\ rafs[1].kind = "start"
    /\ LET positions == measureWordPositions
           eff == AnimationEffect(Tail(rafs), animationRef, TRUE, positions)
       IN  /\ wordPositions' = positions
           /\ rafs' = eff.rafs
           /\ animationRef' = eff.ref
    /\ currentWordIndex' = 0
    /\ elapsedTime' = 0
    /\ startTimeRef' = now
    /\ isPlaying' = TRUE
    /\ transform' = Mounted(transform, View(showInput, isPlaying, countdown),
                            View(showInput, TRUE, countdown))
    /\ UNCHANGED <<showInput, countdown, pausedScrollY, countdownTimeoutsRef, timers>>
    /\ EnterRunning
    /\ UNCHANGED <<inputVars, now>>

\* The frame handleResume's last timer requested (lines 985-996).
ResumeFrame ==
    /\ Len(rafs) > 0
    /\ rafs[1].kind = "resume"
    /\ LET positions == measureWordPositions
           snapped == IF ~showInput /\ Len(positions) > 0
                      THEN TranslateY(getScrollPositionAtTime(RatInt(rafs[1].elapsed), positions))
                      ELSE transform
           eff == AnimationEffect(Tail(rafs), animationRef, TRUE, positions)
       IN  /\ wordPositions' = positions
           /\ transform' = Mounted(snapped, View(showInput, isPlaying, countdown),
                                   View(showInput, TRUE, countdown))
           /\ rafs' = eff.rafs
           /\ animationRef' = eff.ref
    /\ isPlaying' = TRUE
    /\ UNCHANGED <<currentWordIndex, elapsedTime, startTimeRef, showInput, countdown,
                   pausedScrollY, countdownTimeoutsRef, timers>>
    /\ EnterRunning
    /\ UNCHANGED <<inputVars, now>>

\* The frame handleRestart's last timer requested (lines 1026-1030).
RestartFrame ==
    /\ Len(rafs) > 0
    /\ rafs[1].kind = "restart"
    /\ LET positions == measureWordPositions
           eff == AnimationEffect(Tail(rafs), animationRef, TRUE, positions)
       IN  /\ wordPositions' = positions
           /\ rafs' = eff.rafs
           /\ animationRef' = eff.ref
    /\ isPlaying' = TRUE
    /\ transform' = Mounted(transform, View(showInput, isPlaying, countdown),
                            View(showInput, TRUE, countdown))
    /\ UNCHANGED <<currentWordIndex, elapsedTime, startTimeRef, showInput, countdown,
                   pausedScrollY, countdownTimeoutsRef, timers>>
    /\ EnterRunning
    /\ UNCHANGED <<inputVars, now>>

\* runAnimation: one sample of the playback clock (lines 874-894).
runAnimation ==
    /\ Len(rafs) > 0
    /\ rafs[1].kind = "runAnimation"
    /\ IF startTimeRef = Null \/ startTimeRef = 0 \/ showInput
       THEN /\ rafs' = Tail(rafs)
            /\ UNCHANGED <<elapsedTime, currentWordIndex, transform, animationRef,
                           sampledInRun>>
       ELSE LET elapsed == now - startTimeRef
                cappedElapsed == Min(elapsed, targetTimeMs)
                id == NewRafId(Tail(rafs), Null)
            IN  /\ elapsedTime' = elapsed
                /\ currentWordIndex' =
                       Min(getWordIndexAtTime(RatInt(elapsed)), Len(allWords) - 1)
                /\ transform' =
                       TranslateY(getScrollPositionAtTime(RatInt(cappedElapsed), wordPositions))
                /\ rafs' = Append(Tail(rafs), Raf(id, "runAnimation", 0))
                /\ animationRef' = id
                /\ sampledInRun' = TRUE
    /\ UNCHANGED <<isPlaying, showInput, countdown, wordPositions, pausedScrollY,
                   countdownTimeoutsRef, startTimeRef, timers>>
    /\ UNCHANGED <<inputVars, now, lastCmd, nCmds, commandAt, pausedFrom, pausedElapsed,
                   countdownDoneAt>>

\* ------------------------------------------------------------------------
\* The wall clock
\* ------------------------------------------------------------------------
Tick ==
    /\ now < MaxNow
    /\ now' = now + Quantum
    /\ UNCHANGED <<inputVars, playVars, histVars>>

Next ==
    \/ handleStart
    \/ handlePause
    \/ handleResume
    \/ handleRestart
    \/ handleExit
    \/ TimerSetCountdown
    \/ TimerResumeScroll
    \/ StartT3
    \/ ResumeT3
    \/ RestartT3
    \/ startPlayback
    \/ ResumeFrame
    \/ RestartFrame
    \/ runAnimation
    \/ Tick

Spec == Init /\ [][Next]_vars

\* ------------------------------------------------------------------------
\* The input view: edits of the script, the target time and the speeds
\* ------------------------------------------------------------------------
\* "[A]:\nhello world\n\n[B]:\nbye"
TextTwoSpeakers ==
    <<"[","A","]",":",NL,"h","e","l","l","o"," ","w","o","r","l","d",NL,NL,"[","B","]",":",NL,"b","y","e">>

\* "hi.\n[A]: a [B]: be, see" : a speaker-less section and two speakers
TextThreeSections ==
    <<"h","i",".",NL,"[","A","]",":"," ","a"," ","[","B","]",":"," ","b","e",","," ","s","e","e">>

InputTexts == {<<>>, TextHelloWorldBye, TextTwoSpeakers, TextThreeSections}

\* Values typed into the minutes and the seconds field.
TypedMinutes == -1..MaxMinutes

TypedSeconds == {-1, 0, TargetSecs, MaxSeconds + 1}

\* Values JSON.parse may return for the stored seconds (loadFromStorage,
\* lines 653-660, checks nothing).
StoredSeconds == {-TargetSecs, 0, TargetSecs}

\* Positions of the speed slider (min 0.5, max 1.5).
SliderSpeeds == {Rat(1, 2), RatInt(1), Rat(3, 2)}

\* The speakers memo: the named speakers of the sections, each of which has
\* at least one token.
speakers == {allWords[i].speaker : i \in 1..Len(allWords)} \ {NoSpeaker}

\* Math.round of a positive rational
RoundPos(q) == (2 * q[1] + q[2]) \div (2 * q[2])

averageWPM ==
    IF totalWords > 0 /\ targetTimeMs > 0
    THEN RoundPos(RatDiv(RatInt(totalWords), Rat(targetTimeMs, 60000)))
    ELSE 0

\* The render with speakerSpeeds missing from the dependencies of the
\* wordTimings memo.
RenderMemosWithoutSpeedDependency ==
    /\ allWords' = IF script' # script THEN AllWordsMemo(script') ELSE allWords
    /\ wordTimings' =
           IF \/ script' # script
              \/ TargetMs(targetMinutes', targetSeconds') # targetTimeMs
           THEN Timings(allWords', TargetMs(targetMinutes', targetSeconds'), speakerSpeeds')
           ELSE wordTimings
    /\ wordStartTimes' =
           IF wordTimings' # wordTimings
           THEN WordStartTimesMemo(wordTimings')
           ELSE wordStartTimes

\* The render after a state change: each memo is computed again when one of
\* its dependencies changed and kept otherwise (lines 699-718, 775-802).  A
\* dependency that is an array or object counts as changed when its memo
\* was computed again; the value computed then is the same.
RenderMemos ==
    /\ allWords' = IF script' # script THEN AllWordsMemo(script') ELSE allWords
    /\ wordTimings' =
           IF \/ script' # script
              \/ TargetMs(targetMinutes', targetSeconds') # targetTimeMs
              \/ speakerSpeeds' # speakerSpeeds
           THEN Timings(allWords', TargetMs(targetMinutes', targetSeconds'), speakerSpeeds')
           ELSE wordTimings
    /\ wordStartTimes' =
           IF wordTimings' # wordTimings
           THEN WordStartTimesMemo(wordTimings')
           ELSE wordStartTimes

InitInput ==
    /\ script \in InputTexts
    /\ probe = NoProbe
    /\ allWords = AllWordsMemo(script)
    /\ targetMinutes = 0
    /\ targetSeconds \in StoredSeconds
    /\ speakerSpeeds = <<>>
    /\ wordTimings = WordTimingsMemo
    /\ wordStartTimes = WordStartTimesMemo(wordTimings)
    /\ IdleView

\* The textarea's onChange (line 1251).
setScript(text) ==
    /\ showInput
    /\ script' = text
    /\ probe' = NoProbe
    /\ UNCHANGED <<targetMinutes, targetSeconds, speakerSpeeds>>
    /\ RenderMemos
    /\ UNCHANGED <<playVars, now, histVars>>

EditScript == \E text \in InputTexts : text # script /\ setScript(text)

\* The minutes field's onChange (line 1154).
setTargetMinutes ==
    /\ showInput
    /\ \E v \in TypedMinutes : targetMinutes' = Max(0, v)
    /\ targetMinutes' # targetMinutes
    /\ probe' = NoProbe
    /\ UNCHANGED <<script, targetSeconds, speakerSpeeds>>
    /\ RenderMemos
    /\ UNCHANGED <<playVars, now, histVars>>

\* The seconds field's onChange (line 1163).
setTargetSeconds ==
    /\ showInput
    /\ \E v \in TypedSeconds : targetSeconds' = Max(0, Min(MaxSeconds, v))
    /\ targetSeconds' # targetSeconds
    /\ probe' = NoProbe
    /\ UNCHANGED <<script, targetMinutes, speakerSpeeds>>
    /\ RenderMemos
    /\ UNCHANGED <<playVars, now, histVars>>

\* The speed slider's onChange (lines 736-741, 1221); a slider is rendered
\* for each speaker of the speakers memo.
updateSpeakerSpeed ==
    /\ showInput
    /\ \E speaker \in speakers, speed \in SliderSpeeds :
          /\ speed # getSpeakerSpeed(speaker)
          /\ speakerSpeeds' =
                 [k \in DOMAIN speakerSpeeds \cup {speaker} |->
                     IF k = speaker THEN speed ELSE speakerSpeeds[k]]
    /\ probe' = NoProbe
    /\ UNCHANGED <<script, targetMinutes, targetSeconds>>
    /\ RenderMemos
    /\ UNCHANGED <<playVars, now, histVars>>

\* Elapsed times at which the word index is asked for: at and just after
\* every start offset, before the schedule and at its end.
ProbeTimes ==
    {RatInt(-1), RatInt(targetTimeMs)}
    \cup {wordStartTimes[i] : i \in 1..Len(wordStartTimes)}
    \cup {RatAdd(wordStartTimes[i], RatInt(1)) : i \in 1..Len(wordStartTimes)}

\* A call getWordIndexAtTime(elapsed) with the schedule of the last render;
\* earlier is the call before it with the same schedule, if there was one.
ProbeIndex ==
    /\ \E t \in ProbeTimes :
          /\ probe' = [fn |-> "getWordIndexAtTime", elapsed |-> t,
                       index |-> getWordIndexAtTime(t),
                       earlier |-> IF probe = NoProbe THEN <<>>
                                   ELSE <<probe.elapsed, probe.index>>]
          /\ probe' # probe
    /\ UNCHANGED <<script, allWords, targetMinutes, targetSeconds, speakerSpeeds,
                   wordTimings, wordStartTimes>>
    /\ UNCHANGED <<playVars, now, histVars>>

NextInput ==
    \/ EditScript
    \/ setTargetMinutes
    \/ setTargetSeconds
    \/ updateSpeakerSpeed

SpecInput == InitInput /\ [][NextInput]_vars

\* ------------------------------------------------------------------------
\* Calls of getWordIndexAtTime with the schedule of one render
\* ------------------------------------------------------------------------
\* Values JSON.parse may return for the stored minutes and speeds.
StoredMinutes == 0..MaxMinutes

StoredSpeeds ==
    {<<>>,
     (<<"A">> :> Rat(3, 2)),
     (<<"A">> :> Rat(1, 2)) @@ (<<"B">> :> Rat(3, 2))}

\* The first render: every input is what loadFromStorage returned.
InitProbe ==
    /\ script \in InputTexts
    /\ probe = NoProbe
    /\ allWords = AllWordsMemo(script)
    /\ targetMinutes \in StoredMinutes
    /\ targetSeconds \in StoredSeconds
    /\ speakerSpeeds \in StoredSpeeds
    /\ wordTimings = WordTimingsMemo
    /\ wordStartTimes = WordStartTimesMemo(wordTimings)
    /\ IdleView

SpecProbe == InitProbe /\ [][ProbeIndex]_vars

\* ------------------------------------------------------------------------
\* Calls of getWordWeight
\* ------------------------------------------------------------------------
\* Words without trailing punctuation: "", "a", "hi", "Well", "hello",
\* "table", "don't".
WeightWords ==
    {<<>>, <<"a">>, <<"h","i">>, <<"W","e","l","l">>, <<"h","e","l","l","o">>,
     <<"t","a","b","l","e">>, <<"d","o","n","'","t">>}

\* Trailing punctuation: each pause character alone, and the two kinds
\* together in both orders.
PauseSuffixes ==
    {<<c>> : c \in SentenceEnd \cup ClauseEnd} \cup {<<",", ".">>, <<".", ",">>}

\* The calls getWordWeight(word, flag) and getWordWeight(word + suffix, flag).
ProbeWeight ==
    /\ \E word \in WeightWords, suffix \in PauseSuffixes, flag \in BOOLEAN :
          /\ probe' = [fn |-> "getWordWeight", word |-> word, suffix |-> suffix,
                       isBeforeLineBreak |-> flag,
                       plain |-> getWordWeight(word, flag),
                       marked |-> getWordWeight(word \o suffix, flag)]
          /\ probe' # probe
    /\ UNCHANGED <<script, allWords, targetMinutes, targetSeconds, speakerSpeeds,
                   wordTimings, wordStartTimes>>
    /\ UNCHANGED <<playVars, now, histVars>>

InitWeight == InitInput /\ script = <<>> /\ targetSeconds = TargetSecs

SpecWeight == InitWeight /\ [][ProbeWeight]_vars

\* ------------------------------------------------------------------------
\* Typing and pasting into the script field
\* ------------------------------------------------------------------------
\* "a\n\n b c\n\td" : blank lines and indented lines inside one section
TextBlankLines == <<"a",NL,NL," ","b"," ","c",NL,"\t","d">>

PastedTexts == InputTexts \cup {TextBlankLines}

\* What one edit appends to the script.
Pieces ==
    {<<"[","A","]",":">>, <<"[","B","]",":">>, <<"a">>, <<"b",".">>, <<" ">>,
     <<NL>>, <<"=","=">>, <<"[">>, <<"]",":">>}

\* The textarea's onChange (line 1252) after a piece was typed at the end of
\* the script or a text was pasted over it; nCmds counts these edits.
TypeOrPaste ==
    /\ nCmds < MaxPieces
    /\ \E text \in {script \o piece : piece \in Pieces} \cup PastedTexts :
          /\ text # script
          /\ script' = text
    /\ probe' = NoProbe
    /\ UNCHANGED <<targetMinutes, targetSeconds, speakerSpeeds>>
    /\ RenderMemos
    /\ nCmds' = nCmds + 1
    /\ UNCHANGED <<playVars, now, lastCmd, commandAt, pausedFrom, pausedElapsed, sampledInRun,
                   countdownDoneAt>>

InitParse == InitInput /\ script = <<>> /\ targetSeconds = TargetSecs

SpecParse == InitParse /\ [][TypeOrPaste]_vars

\* ------------------------------------------------------------------------
\* Calls of getScrollPositionAtTime
\* ------------------------------------------------------------------------
\* Elapsed times the scroll offset is asked for: before the schedule (the
\* difference of two Date.now() readings may be negative), at its end, and
\* at the start, the middle and just before the end of every token.
ScrollTimes ==
    {RatInt(-1), RatInt(targetTimeMs)}
    \cup {wordStartTimes[i] : i \in 1..Len(wordStartTimes)}
    \cup {RatAdd(wordStartTimes[i], RatDiv(wordTimings[i], RatInt(2))) :
              i \in 1..Len(wordStartTimes)}
    \cup {RatAdd(wordStartTimes[i], RatDiv(RatMul(wordTimings[i], RatInt(7)), RatInt(8))) :
              i \in 1..Len(wordStartTimes)}

\* Position snapshots: what measureWordPositions returns now, and what it
\* returned in a render with fewer tokens.
Snapshots ==
    {SubSeq(measureWordPositions, 1, n) : n \in 0..Len(measureWordPositions)}

\* A call getScrollPositionAtTime(elapsed, positions) with the schedule of
\* the last render.
ProbeScroll ==
    /\ \E t \in ScrollTimes, positions \in Snapshots :
          /\ probe' = [fn |-> "getScrollPositionAtTime", elapsed |-> t,
                       positions |-> positions,
                       index |-> getWordIndexAtTime(t),
                       progress |-> IF Len(wordTimings) = 0 THEN RatInt(0)
                                    ELSE WordProgress(t, getWordIndexAtTime(t)),
                       height |-> containerHeight,
                       scrollY |-> getScrollPositionAtTime(t, positions)]
          /\ probe' # probe
    /\ UNCHANGED <<script, allWords, targetMinutes, targetSeconds, speakerSpeeds,
                   wordTimings, wordStartTimes>>
    /\ UNCHANGED <<playVars, now, histVars>>

InitScroll ==
    /\ script \in PastedTexts
    /\ probe = NoProbe
    /\ allWords = AllWordsMemo(script)
    /\ targetMinutes \in StoredMinutes
    /\ targetSeconds \in StoredSeconds
    /\ speakerSpeeds \in StoredSpeeds
    /\ wordTimings = WordTimingsMemo
    /\ wordStartTimes = WordStartTimesMemo(wordTimings)
    /\ IdleView

\* The start command mounts the playing view; the calls are made in either
\* view.
SpecScroll == InitScroll /\ [][handleStart \/ ProbeScroll]_vars

\* ------------------------------------------------------------------------
\* Derived notions used by the properties
\* ------------------------------------------------------------------------
\* A step of a timer or animation-frame callback or of the clock: any step
\* that is not a user command.
NoCommand == nCmds' = nCmds

\* A runAnimation step that took a sample (its guard passed).
Sample == runAnimation /\ animationRef' # animationRef

\* The countdown of the latest resume or restart command is still running:
\* its last timer is pending.
TrackedT3Pending(origin) ==
    \E k \in 1..Len(timers) :
        /\ timers[k].kind = "t3"
        /\ timers[k].origin = origin
        /\ timers[k].id \in countdownTimeoutsRef

\* ------------------------------------------------------------------------
\* C1 - exit makes every callback scheduled before it inert
\* ------------------------------------------------------------------------
\* C1: after an exit command and until the next command, no timer or
\* animation-frame callback changes isPlaying, currentWordIndex, elapsedTime,
\* countdown or the anchor (so they keep the values the exit left).
C1_StaleCallbacksInertAfterExit ==
    [][(lastCmd = "exit" /\ NoCommand) =>
          UNCHANGED <<isPlaying, currentWordIndex, elapsedTime, countdown,
                      startTimeRef>>]_vars

\* ------------------------------------------------------------------------
\* C2 - pause cancels the countdown it interrupts
\* ------------------------------------------------------------------------
\* C2: after a pause command issued during a countdown and until the next
\* command, countdown stays null and isPlaying stays false.
C2_PauseCancelsCountdown ==
    (lastCmd = "pause" /\ pausedFrom = "countdown") =>
        (countdown = Null /\ isPlaying = FALSE)

\* ------------------------------------------------------------------------
\* C3 - pause then resume preserves elapsedTime
\* ------------------------------------------------------------------------
ResumedFromRunning == lastCmd = "resume" /\ pausedFrom = "running"

\* C3: after a pause issued while Running with elapsedTime = E and a resume,
\* and until the next command: elapsedTime is E while the resume countdown
\* runs, the countdown's last timer sets the anchor to now - E, and the first
\* sample exceeds E by exactly the time passed since that timer ran.
C3_ResumePreservesElapsed ==
    [][(ResumedFromRunning /\ NoCommand) =>
          /\ TrackedT3Pending("resume")' => elapsedTime' = pausedElapsed
          /\ ResumeT3 => startTimeRef' = now - pausedElapsed
          /\ (Sample /\ ~sampledInRun) =>
                 elapsedTime' - pausedElapsed = now - countdownDoneAt]_vars

\* ------------------------------------------------------------------------
\* C4 - restart resets elapsedTime
\* ------------------------------------------------------------------------
\* C4: a restart command sets elapsedTime and currentWordIndex to 0 at once;
\* until the next command elapsedTime stays 0 while the restart countdown
\* runs, and the countdown's last timer sets the anchor to now.
C4_RestartResetsElapsed ==
    [][/\ handleRestart => (elapsedTime' = 0 /\ currentWordIndex' = 0)
       /\ (lastCmd = "restart" /\ NoCommand) =>
             /\ TrackedT3Pending("restart")' => elapsedTime' = 0
             /\ RestartT3 => startTimeRef' = now]_vars

\* ------------------------------------------------------------------------
\* C5 - pause freezes the sampled values
\* ------------------------------------------------------------------------
\* C5: after a pause command issued while Running and until the next
\* command, elapsedTime and currentWordIndex do not change.
C5_PauseFreezesSamples ==
    [][(lastCmd = "pause" /\ pausedFrom = "running" /\ NoCommand) =>
          UNCHANGED <<elapsedTime, currentWordIndex>>]_vars

\* ------------------------------------------------------------------------
\* C6 - the anchor while paused and while sampling
\* ------------------------------------------------------------------------
Paused == ~showInput /\ ~isPlaying /\ countdown = Null

C7_SamplesMonotonic ==
    [][Sample =>
          /\ currentWordIndex' \in 0..(Len(allWords) - 1)
          /\ (isPlaying /\ sampledInRun) =>
                 (elapsedTime' >= elapsedTime /\ currentWordIndex' >= currentWordIndex)]_vars

\* ------------------------------------------------------------------------
\* C8 - start with no tokens
\* ------------------------------------------------------------------------
\* C8: a start command issued while the token list is empty changes no
\* state of the component and schedules no timer or frame.
C8_StartWithoutWordsIsNoOp ==
    [][(handleStart /\ Len(allWords) = 0) => UNCHANGED playVars]_vars

\* C8 witness: the start command was issued with an empty token list.
C8_Witness ==
    /\ lastCmd = "start"
    /\ Len(allWords) = 0
    /\ showInput
    /\ countdown = Null
    /\ timers = <<>>

\* ------------------------------------------------------------------------
\* C9 - the start countdown ends in Running from 0
\* ------------------------------------------------------------------------
\* C9: while start is the last command, the countdown's last timer requests
\* the startPlayback frame, and that frame puts playback in Running (the
\* sampler is requested) with the anchor at now, elapsedTime 0 and
\* currentWordIndex 0.
C9_StartCountdownEndsRunning ==
    [][lastCmd = "start" =>
          /\ StartT3 => (Len(rafs') > 0 /\ rafs'[Len(rafs')].kind = "start")
          /\ startPlayback =>
                 /\ isPlaying'
                 /\ startTimeRef' = now
                 /\ elapsedTime' = 0
                 /\ currentWordIndex' = 0
                 /\ animationRef' # Null
                 /\ \E i \in 1..Len(rafs') : rafs'[i].id = animationRef']_vars

\* C9 witness: Running right after the countdown of a single start command.
C9_Witness ==
    /\ lastCmd = "start"
    /\ nCmds = 1
    /\ isPlaying
    /\ countdown = Null
    /\ startTimeRef = now
    /\ now = StartClock + 3 * Quantum
    /\ elapsedTime = 0
    /\ currentWordIndex = 0
    /\ animationRef # Null

\* ------------------------------------------------------------------------
\* C10 - exit returns to Idle
\* ------------------------------------------------------------------------
\* C10: right after an exit command the state is Idle: not playing, elapsed
\* 0, index -1, no anchor, empty snapshot, input shown, no countdown shown
\* and no countdown timer pending.
C10_ExitReachesIdle ==
    [][handleExit =>
          /\ isPlaying' = FALSE
          /\ elapsedTime' = 0
          /\ currentWordIndex' = -1
          /\ startTimeRef' = Null
          /\ wordPositions' = <<>>
          /\ showInput'
          /\ countdown' = Null
          /\ timers' = <<>>]_vars

\* ------------------------------------------------------------------------
\* C11 - the word index is the last token whose start offset has passed
\* ------------------------------------------------------------------------
\* 0-based indices of the tokens whose start offset is at most elapsed.
Started(elapsed) ==
    {i \in 0..(Len(wordStartTimes) - 1) : RatLE(wordStartTimes[i + 1], elapsed)}

NonDecreasingStarts ==
    \A i \in 1..(Len(wordStartTimes) - 1) :
        RatLE(wordStartTimes[i], wordStartTimes[i + 1])

\* C11: with non-decreasing start offsets and elapsed >= 0,
\* getWordIndexAtTime(elapsed) is the largest index whose start offset is at
\* most elapsed, so at elapsed equal to the start offset of token i the
\* result is at least i; when no start offset is at most elapsed, and for
\* the empty schedule, the result is 0.
C11_IndexIsLargestStarted ==
    probe # NoProbe =>
        /\ (NonDecreasingStarts /\ RatLE(RatInt(0), probe.elapsed)
                /\ Started(probe.elapsed) # {}) =>
               /\ probe.index \in Started(probe.elapsed)
               /\ \A j \in Started(probe.elapsed) : j <= probe.index
               /\ \A i \in 0..(Len(wordStartTimes) - 1) :
                      probe.elapsed = wordStartTimes[i + 1] => probe.index >= i
        /\ Started(probe.elapsed) = {} => probe.index = 0

\* C11 witness: the index was asked for exactly at the start offset of the
\* second of at least three tokens, and is that token's.
C11_Witness ==
    /\ probe # NoProbe
    /\ Len(wordStartTimes) >= 3
    /\ NonDecreasingStarts
    /\ RatLT(RatInt(0), probe.elapsed)
    /\ probe.elapsed = wordStartTimes[2]
    /\ RatLT(probe.elapsed, wordStartTimes[3])
    /\ probe.index = 1

\* ------------------------------------------------------------------------
\* C12 - the word index is monotonic in the elapsed time
\* ------------------------------------------------------------------------
\* C12: of two calls of getWordIndexAtTime with the same schedule, the one
\* with the smaller or equal elapsed time returns the smaller or equal
\* index.
C12_IndexMonotonic ==
    (probe # NoProbe /\ probe.earlier # <<>>) =>
        /\ RatLE(probe.earlier[1], probe.elapsed) => probe.earlier[2] <= probe.index
        /\ RatLE(probe.elapsed, probe.earlier[1]) => probe.index <= probe.earlier[2]

\* C12 witness: two calls with the same schedule, the second at a later
\* elapsed time and with a larger index.
C12_Witness ==
    /\ probe # NoProbe
    /\ probe.earlier # <<>>
    /\ RatLT(probe.earlier[1], probe.elapsed)
    /\ probe.earlier[2] < probe.index

\* ------------------------------------------------------------------------
\* C13 - the durations sum to the target
\* ------------------------------------------------------------------------
\* C13: with at least one token and a target above 0 (the speeds are
\* positive), the durations of all tokens sum to targetTimeMs.  The sum is
\* exact here; the code's floating-point sum differs from it by rounding
\* only.
C13_DurationsSumToTarget ==
    (Len(allWords) > 0 /\ targetTimeMs > 0) =>
        RatSum(wordTimings, Len(wordTimings)) = RatInt(targetTimeMs)

\* C13 witness: several tokens, a speaker with a speed other than 1, a
\* duration that is not a whole number of milliseconds.
C13_Witness ==
    /\ Len(allWords) >= 3
    /\ targetTimeMs > 0
    /\ \E k \in DOMAIN speakerSpeeds : speakerSpeeds[k] # RatInt(1)
    /\ \E i \in 1..Len(wordTimings) : wordTimings[i][2] # 1
    /\ RatSum(wordTimings, Len(wordTimings)) = RatInt(targetTimeMs)

\* ------------------------------------------------------------------------
\* C14 - no target or no tokens: an all-zero schedule
\* ------------------------------------------------------------------------
\* C14: when the target is zero or negative, or there is no token, every
\* duration and every start offset is 0 and averageWPM is 0.
C14_NoTargetNoSchedule ==
    (targetTimeMs <= 0 \/ Len(allWords) = 0) =>
        /\ \A i \in 1..Len(wordTimings) : wordTimings[i] = RatInt(0)
        /\ \A i \in 1..Len(wordStartTimes) : wordStartTimes[i] = RatInt(0)
        /\ averageWPM = 0

\* ------------------------------------------------------------------------
\* C16 - the schedule is that of the current inputs
\* ------------------------------------------------------------------------
\* C16: after any edits of the script, the target and the speeds, the
\* tokens are the parse of the current script, there is one duration and
\* one start offset per token, and the schedule is the one computed from
\* the current tokens, target and speeds.
C16_ScheduleIsFromScratch ==
    /\ allWords = AllWordsMemo(script)
    /\ Len(wordTimings) = Len(allWords)
    /\ Len(wordStartTimes) = Len(allWords)
    /\ wordTimings = Timings(allWords, targetTimeMs, speakerSpeeds)
    /\ wordStartTimes = WordStartTimesMemo(wordTimings)

\* C16 witness: the script, the minutes, the seconds and two speeds were
\* edited (speaker B, whose speed is set, is not in the current script).
C16_Witness ==
    /\ script = TextHelloWorldBye
    /\ <<"B">> \in DOMAIN speakerSpeeds
    /\ <<"A">> \in DOMAIN speakerSpeeds
    /\ speakerSpeeds[<<"A">>] = Rat(3, 2)
    /\ targetMinutes = MaxMinutes
    /\ targetSeconds = MaxSeconds
    /\ Len(wordTimings) = 3

\* ------------------------------------------------------------------------
\* C17 - a faster speaker gets less time, the others more
\* ------------------------------------------------------------------------
\* The speakers of the tokens, the speaker-less ones counting as one.
TokenSpeakers == {allWords[i].speaker : i \in 1..Len(allWords)}

\* Summed duration of the tokens of one speaker.
SpeakerTime(timings, speaker) ==
    RatSum([i \in 1..Len(timings) |->
               IF allWords[i].speaker = speaker THEN timings[i] ELSE RatInt(0)],
           Len(timings))

\* The speed map with 1.0 entered for every speaker of a token that has no
\* entry.
FilledSpeeds ==
    [k \in DOMAIN speakerSpeeds \cup {SpeakerKey(sp) : sp \in TokenSpeakers} |->
        IF k \in DOMAIN speakerSpeeds THEN speakerSpeeds[k] ELSE RatInt(1)]

\* C17: with tokens of at least two speakers and a target above 0, a
\* slider step that raises one speaker's speed gives that speaker's tokens
\* strictly less time in total and every other speaker's tokens strictly
\* more, the total staying the target; and the schedule is the one of the
\* speed map with 1.0 entered for the speakers without an entry.
C17_RaisingSpeedShiftsTime ==
    [][(updateSpeakerSpeed /\ Cardinality(TokenSpeakers) >= 2 /\ targetTimeMs > 0) =>
          /\ wordTimings = Timings(allWords, targetTimeMs, FilledSpeeds)
          /\ \A sp \in TokenSpeakers :
                 RatLT(SpeedIn(speakerSpeeds, sp), SpeedIn(speakerSpeeds', sp)) =>
                    /\ RatLT(SpeakerTime(wordTimings', sp), SpeakerTime(wordTimings, sp))
                    /\ \A other \in TokenSpeakers \ {sp} :
                           RatLT(SpeakerTime(wordTimings, other),
                                 SpeakerTime(wordTimings', other))
                    /\ RatSum(wordTimings', Len(wordTimings')) = RatInt(targetTimeMs)]_vars

\* C17 witness: speaker A was raised to 1.5 while B has no entry; A's
\* tokens have less time than with every speed at 1.0.
C17_Witness ==
    /\ script = TextTwoSpeakers
    /\ targetTimeMs > 0
    /\ DOMAIN speakerSpeeds = {<<"A">>}
    /\ speakerSpeeds[<<"A">>] = Rat(3, 2)
    /\ RatLT(SpeakerTime(wordTimings, <<"A">>),
             SpeakerTime(Timings(allWords, targetTimeMs, <<>>), <<"A">>))
    /\ RatLT(SpeakerTime(Timings(allWords, targetTimeMs, <<>>), <<"B">>),
             SpeakerTime(wordTimings, <<"B">>))

\* ------------------------------------------------------------------------
\* C15 - sampling continues past the end of the schedule
\* ------------------------------------------------------------------------
\* C15: a sample always requests the next one; a sample that follows a
\* sample of the same Running period at which elapsedTime had reached the
\* target does not decrease elapsedTime; and a sample with elapsed at or
\* past a target above 0 sets currentWordIndex to the last token and the
\* scroll offset to the one computed at elapsed = targetTimeMs.
C15_SamplingContinuesPastEnd ==
    [][Sample =>
          /\ animationRef' # Null
          /\ \E i \in 1..Len(rafs') :
                 rafs'[i].id = animationRef' /\ rafs'[i].kind = "runAnimation"
          /\ (isPlaying /\ sampledInRun /\ elapsedTime >= targetTimeMs) =>
                 elapsedTime' >= elapsedTime
          /\ (targetTimeMs > 0 /\ elapsedTime' >= targetTimeMs) =>
                 /\ currentWordIndex' = Len(allWords) - 1
                 /\ transform' =
                        TranslateY(getScrollPositionAtTime(RatInt(targetTimeMs),
                                                           wordPositions))]_vars

\* ------------------------------------------------------------------------
\* C18 - the pause additions of getWordWeight
\* ------------------------------------------------------------------------
\* C18: with the same line-break flag, a word followed by punctuation that
\* ends in '.', '!' or '?' weighs exactly 1.5 more than the word alone, one
\* that ends in ',', ';', ':', an em-dash or an en-dash exactly 0.8 more;
\* the last character decides, and the two additions are never both
\* applied.  The sums are exact here, the code's are floating-point.
C18_PauseAdditions ==
    probe # NoProbe =>
        /\ probe.suffix[Len(probe.suffix)] \in SentenceEnd =>
               probe.marked = RatAdd(probe.plain, Rat(15, 10))
        /\ probe.suffix[Len(probe.suffix)] \in ClauseEnd =>
               probe.marked = RatAdd(probe.plain, Rat(8, 10))
        /\ probe.marked # RatAdd(probe.plain, Rat(23, 10))

\* C18 witness: "hello.," before a line break weighs 0.8 more than "hello".
C18_Witness ==
    /\ probe # NoProbe
    /\ probe.word = <<"h","e","l","l","o">>
    /\ probe.suffix = <<".", ",">>
    /\ probe.isBeforeLineBreak
    /\ probe.marked = RatAdd(probe.plain, Rat(8, 10))

\* ------------------------------------------------------------------------
\* C19 - the sections of a script
\* ------------------------------------------------------------------------
\* The n-th smallest element of a set of numbers.
Nth(S, n) == CHOOSE x \in S : Cardinality({y \in S : y < x}) = n - 1

\* Position of the first "]" after position i of c, or 0.
CloseOf(c, i) ==
    IF \E k \in (i + 1)..Len(c) : c[k] = "]"
    THEN Nth({k \in (i + 1)..Len(c) : c[k] = "]"}, 1)
    ELSE 0

\* "[", a name of one or more characters other than "]", and "]:" stand at
\* position i of c.
IsMarkerAt(c, i) ==
    /\ c[i] = "["
    /\ CloseOf(c, i) >= i + 2
    /\ CloseOf(c, i) + 1 <= Len(c)
    /\ c[CloseOf(c, i) + 1] = ":"

\* The positions where a marker of c begins: of the "[" that share their
\* "]:", the leftmost.
MarkerStarts(c) ==
    {i \in 1..Len(c) :
        /\ IsMarkerAt(c, i)
        /\ \A i0 \in 1..(i - 1) : ~(IsMarkerAt(c, i0) /\ CloseOf(c, i0) = CloseOf(c, i))}

\* The text a section may take: before the first marker for n = 0, and
\* from the end of the n-th marker to the start of the next one or to the
\* end of the text.
SectionText(c, M, n) ==
    Slice(c,
          IF n = 0 THEN 1 ELSE CloseOf(c, Nth(M, n)) + 2,
          IF n < Cardinality(M) THEN Nth(M, n + 1) - 1 ELSE Len(c))

\* The sections the claim describes for the cleaned text c whose markers
\* begin at the positions M.
SectionsInTextOrder(c, M) ==
    SelectSeq([k \in 1..(Cardinality(M) + 1) |->
                  Section(IF k = 1 THEN NoSpeaker
                          ELSE Slice(c, Nth(M, k - 1) + 1, CloseOf(c, Nth(M, k - 1)) - 1),
                          Trim(SectionText(c, M, k - 1)))],
              LAMBDA sec : sec.content # <<>>)

\* C19: the sections parseScript returns for the script are, in text order,
\* a speaker-less one for the text before the first marker and one per
\* marker, named after it, for the text up to the next marker or the end,
\* each trimmed and left out when empty; none has empty content; a
\* non-blank script without a marker gives exactly one, speaker-less,
\* section; and "[A]:\nhello world\n\n[B]:\nbye" gives the speakers A, B and
\* the tokens hello, world, bye.
C19_SectionsInTextOrder ==
    /\ parseScript(script) =
           SectionsInTextOrder(StripHighlights(script, 1),
                               MarkerStarts(StripHighlights(script, 1)))
    /\ \A k \in 1..Len(parseScript(script)) :
           /\ parseScript(script)[k].content # <<>>
           /\ parseScript(script)[k].content = Trim(parseScript(script)[k].content)
    /\ (MarkerStarts(StripHighlights(script, 1)) = {}
            /\ Trim(StripHighlights(script, 1)) # <<>>) =>
           /\ Len(parseScript(script)) = 1
           /\ parseScript(script)[1].speaker = NoSpeaker
    /\ script = TextTwoSpeakers =>
           /\ [k \in 1..Len(parseScript(script)) |-> parseScript(script)[k].speaker]
                  = <<<<"A">>, <<"B">>>>
           /\ [k \in 1..Len(allWords) |-> allWords[k].text]
                  = <<<<"h","e","l","l","o">>, <<"w","o","r","l","d">>, <<"b","y","e">>>>

\* C19 witness: "[A]:[B]:a" was typed in three pieces:
\* the first marker has no text and gives no section, the second gives one.
C19_Witness ==
    /\ script = <<"[","A","]",":","[","B","]",":","a">>
    /\ nCmds = 3
    /\ parseScript(script) = <<Section(<<"B">>, <<"a">>)>>
    /\ Len(allWords) = 1
    /\ allWords[1].speaker = <<"B">>

\* ------------------------------------------------------------------------
\* C20 - the line-start flag
\* ------------------------------------------------------------------------
\* The positions of c where a word begins.
WordStarts(c) ==
    {p \in 1..Len(c) : c[p] \notin WhiteSpace /\ (p = 1 \/ c[p - 1] \in WhiteSpace)}

\* Position p of c comes after a line break with only white space between.
FirstOnLaterLine(c, p) ==
    \E n \in 1..(p - 1) : c[n] = NL /\ \A m \in (n + 1)..(p - 1) : c[m] \in WhiteSpace

\* C20: for the content of every section of the script, parseWords gives
\* one token per word, and a token has isLineStart exactly when it is the
\* first on its line and that line is not the content's first; so the
\* first token of a section never has it.
C20_LineStartFlag ==
    \A k \in 1..Len(parseScript(script)) :
        /\ Len(parseWords(parseScript(script)[k].content))
               = Cardinality(WordStarts(parseScript(script)[k].content))
        /\ \A w \in 1..Len(parseWords(parseScript(script)[k].content)) :
               parseWords(parseScript(script)[k].content)[w].isLineStart
                   <=> FirstOnLaterLine(parseScript(script)[k].content,
                                        Nth(WordStarts(parseScript(script)[k].content), w))
        /\ ~parseWords(parseScript(script)[k].content)[1].isLineStart

\* C20 witness: "a\n\n b c\n\td" was pasted: b follows a blank line and d is
\* the first word of an indented line, both with isLineStart; a and c
\* without.
C20_Witness ==
    /\ script = TextBlankLines
    /\ Len(allWords) = 4
    /\ ~allWords[1].isLineStart
    /\ allWords[2].isLineStart
    /\ ~allWords[3].isLineStart
    /\ allWords[4].isLineStart

\* ------------------------------------------------------------------------
\* C21 - a token without a position
\* ------------------------------------------------------------------------
\* Center of the entry of token idx (0-based) of a snapshot, or of the
\* nearest earlier token that has one, or 0.
KnownCenter(positions, idx) ==
    IF Len(positions) = 0 \/ idx < 0 THEN RatInt(0)
    ELSE positions[Min(idx + 1, Len(positions))].center

\* C21: when the snapshot has no entry for the current or for the next
\* token, the scroll offset is the one computed with the position of the
\* nearest earlier token that has an entry in its place, and with 0 when
\* there is none.
C21_MissingPositionUsesPrevious ==
    (probe # NoProbe /\ Len(wordTimings) > 0) =>
        probe.scrollY =
            RatMax(RatInt(0),
                   RatSub(RatAdd(KnownCenter(probe.positions, probe.index),
                                 RatMul(RatSub(KnownCenter(probe.positions,
                                                           Min(probe.index + 1,
                                                               Len(allWords) - 1)),
                                               KnownCenter(probe.positions, probe.index)),
                                        probe.progress)),
                          Rat(probe.height, 2)))

\* ------------------------------------------------------------------------
\* C22 - the scroll offset
\* ------------------------------------------------------------------------
\* The center that the progress interpolates between the entries cur and
\* next (1-based) of a snapshot.
InterpolatedCenter(positions, cur, next, progress) ==
    RatAdd(positions[cur].center,
           RatMul(RatSub(positions[next].center, positions[cur].center), progress))

C29_ProgressInUnitInterval ==
    (probe # NoProbe /\ Len(wordTimings) > 0) =>
        /\ RatLE(RatInt(0), probe.progress)
        /\ RatLE(probe.progress, RatInt(1))
        /\ wordTimings[probe.index + 1] = RatInt(0) => probe.progress = RatInt(0)

\* ------------------------------------------------------------------------
\* C30 - the start offsets
\* ------------------------------------------------------------------------
\* C30: the start offsets are the prefix sums of the durations: the first
\* is 0 and each next one is the one before plus the duration of the token
\* before; with a target > 0 they increase strictly and each is smaller
\* than the target.
C30_StartsArePrefixSums ==
    /\ Len(wordStartTimes) = Len(wordTimings)
    /\ Len(wordStartTimes) > 0 => wordStartTimes[1] = RatInt(0)
    /\ \A i \in 1..(Len(wordStartTimes) - 1) :
          wordStartTimes[i + 1] = RatAdd(wordStartTimes[i], wordTimings[i])
    /\ targetTimeMs > 0 =>
          /\ \A i \in 1..(Len(wordStartTimes) - 1) :
                RatLT(wordStartTimes[i], wordStartTimes[i + 1])
          /\ \A i \in 1..Len(wordStartTimes) :
                RatLT(wordStartTimes[i], RatInt(targetTimeMs))

\* A schedule of several tokens with different durations, computed after an
\* edit of the seconds field gave a target > 0.
C30_Witness ==
    /\ targetTimeMs > 0
    /\ targetSeconds = MaxSeconds
    /\ Len(wordStartTimes) >= 3
    /\ wordTimings[1] # wordTimings[2]

\* ------------------------------------------------------------------------
\* C28 - the section boundaries
\* ------------------------------------------------------------------------
\* The sectionBoundaries that the memo of lines 699-718 pushes for sections
\* i.., count being allWords.length when section i is reached.
RECURSIVE SectionBoundariesFrom(_, _, _)
SectionBoundariesFrom(sections, i, count) ==
    IF i > Len(sections) THEN <<>>
    ELSE <<[startIndex |-> count,
            endIndex |-> count + Len(parseWords(sections[i].content)) - 1,
            speaker |-> sections[i].speaker]>>
         \o SectionBoundariesFrom(sections, i + 1,
                                  count + Len(parseWords(sections[i].content)))

\* The memo with endIndex: allWords.length.
sectionBoundariesEndAtLength ==
    LET EndsMoved(b) == [k \in 1..Len(b) |-> [b[k] EXCEPT !.endIndex = @ + 1]]
    IN  EndsMoved(SectionBoundariesFrom(parseScript(script), 1, 0))

sectionBoundaries == SectionBoundariesFrom(parseScript(script), 1, 0)

\* The boundaries b cut the tokens words into consecutive non-empty runs of
\* one speaker each.
IsPartition(b, words) ==
    /\ Len(b) = 0 => Len(words) = 0
    /\ Len(b) > 0 => b[1].startIndex = 0 /\ b[Len(b)].endIndex = Len(words) - 1
    /\ \A k \in 1..(Len(b) - 1) : b[k + 1].startIndex = b[k].endIndex + 1
    /\ \A k \in 1..Len(b) :
          /\ b[k].startIndex <= b[k].endIndex
          /\ \A i \in b[k].startIndex..b[k].endIndex :
                /\ i + 1 \in 1..Len(words)
                /\ words[i + 1].speaker = b[k].speaker

\* C28: the section boundaries partition the flat token sequence: the
\* first section starts at index 0, each next one starts one after the end
\* of the one before, the last one ends at the last token, every section
\* has at least one token, and each token has the speaker of the section
\* that contains its index.
C28_BoundariesPartitionTokens == IsPartition(sectionBoundaries, allWords)

\* A typed or pasted script of three sections, the last with several
\* tokens.
C28_Witness ==
    /\ nCmds > 0
    /\ Len(sectionBoundaries) = 3
    /\ sectionBoundaries[2].speaker # sectionBoundaries[3].speaker
    /\ sectionBoundaries[3].startIndex < sectionBoundaries[3].endIndex

\* ------------------------------------------------------------------------
\* Typing into the minutes and the seconds field
\* ------------------------------------------------------------------------
\* The decimal digits and their values.
DigitValue ==
    [c \in {"0", "1", "2", "3", "4", "5", "6", "7", "8", "9"} |->
        CHOOSE d \in 0..9 : <<"0", "1", "2", "3", "4", "5", "6", "7", "8", "9">>[d + 1] = c]

\* The index of the first character of s at or after i that is not white
\* space, Len(s) + 1 when there is none.
RECURSIVE SkipWhiteSpace(_, _)
SkipWhiteSpace(s, i) ==
    IF i > Len(s) \/ s[i] \notin WhiteSpace THEN i ELSE SkipWhiteSpace(s, i + 1)

\* The number of decimal digits of s from index i on.
RECURSIVE DigitRun(_, _)
DigitRun(s, i) ==
    IF i > Len(s) \/ s[i] \notin DOMAIN DigitValue THEN 0 ELSE 1 + DigitRun(s, i + 1)

\* The value of the n digits of s from index i on, after the digits that
\* gave acc.
RECURSIVE DigitsValue(_, _, _, _)
DigitsValue(s, i, n, acc) ==
    IF n = 0 THEN acc ELSE DigitsValue(s, i + 1, n - 1, acc * 10 + DigitValue[s[i]])

NaN == [nan |-> TRUE, value |-> 0]

\* parseInt(s) without a radix for the decimal strings: white space is
\* skipped, a sign is read, then the longest run of digits; NaN when there
\* is no digit there.
parseInt(s) ==
    LET From(i, signed) ==
            IF DigitRun(s, i + signed) = 0 THEN NaN
            ELSE [nan |-> FALSE,
                  value |-> (IF signed = 1 /\ s[i] = "-" THEN -1 ELSE 1)
                            * DigitsValue(s, i + signed, DigitRun(s, i + signed), 0)]
        At(i) == From(i, IF i <= Len(s) /\ s[i] \in {"-", "+"} THEN 1 ELSE 0)
    IN  At(SkipWhiteSpace(s, 1))

\* x || 0 for a number x: NaN and 0 are falsy.
OrZero(x) == IF x.nan THEN 0 ELSE x.value

\* The seconds field's onChange without Math.min(59, ...).
SecondsFromInputNoUpperClamp(value) == Max(0, OrZero(parseInt(value)))

\* The value the seconds field's onChange passes to setTargetSeconds (line
\* 1164).
SecondsFromInput(value) == Max(0, Min(MaxSeconds, OrZero(parseInt(value))))

\* e.target.value of a time field: empty, non-numeric, negative, in range,
\* over range, fractional, padded and signed entries.
TypedEntries ==
    {<<>>, <<"a","b","c">>, <<"-">>, <<"-","5">>, <<"-","0">>, <<"0">>, <<"1">>,
     <<"2">>, <<"7">>, <<"1","0">>, <<"1","2">>, <<"3","0">>, <<"5","9">>,
     <<"6","0">>, <<"7","5">>, <<"1",".","5">>, <<" ","3">>, <<"4","x">>,
     <<"+","8">>, <<"0","0","9">>, <<"1","e","3">>, <<".","5">>}

\* The minutes field's onChange (line 1154) with the text of the field.
onChangeMinutes ==
    /\ showInput
    /\ \E value \in TypedEntries :
          /\ targetMinutes' = Max(0, OrZero(parseInt(value)))
          /\ probe' = [fn |-> "onChange", field |-> "minutes", value |-> value]
    /\ UNCHANGED <<script, targetSeconds, speakerSpeeds>>
    /\ RenderMemos
    /\ UNCHANGED <<playVars, now, histVars>>

\* The seconds field's onChange (line 1164) with the text of the field.
onChangeSeconds ==
    /\ showInput
    /\ \E value \in TypedEntries :
          /\ targetSeconds' = SecondsFromInput(value)
          /\ probe' = [fn |-> "onChange", field |-> "seconds", value |-> value]
    /\ UNCHANGED <<script, targetMinutes, speakerSpeeds>>
    /\ RenderMemos
    /\ UNCHANGED <<playVars, now, histVars>>

\* The defaults of the useState hooks (lines 663-666) with nothing stored.
DefaultMinutes == 1

DefaultSeconds == 0

InitTime ==
    /\ script = <<>>
    /\ probe = NoProbe
    /\ allWords = AllWordsMemo(script)
    /\ targetMinutes = DefaultMinutes
    /\ targetSeconds = DefaultSeconds
    /\ speakerSpeeds = <<>>
    /\ wordTimings = WordTimingsMemo
    /\ wordStartTimes = WordStartTimesMemo(wordTimings)
    /\ IdleView

SpecTime == InitTime /\ [][onChangeMinutes \/ onChangeSeconds]_vars

\* ------------------------------------------------------------------------
\* C24 - the target time after edits
\* ------------------------------------------------------------------------
\* C24: starting from 1 minute and 0 seconds, after any edits of the
\* minutes and the seconds field targetSeconds is an integer in 0..59,
\* targetMinutes is an integer >= 0, and targetTimeMs is >= 0.
C24_TargetTimeNonNegative ==
    /\ targetSeconds \in 0..MaxSeconds
    /\ targetMinutes \in Nat
    /\ targetTimeMs >= 0

\* The seconds at the upper limit after an over-range entry, the minutes at
\* 0 after an earlier edit.
C24_Witness ==
    /\ probe # NoProbe
    /\ probe.field = "seconds"
    /\ probe.value = <<"7", "5">>
    /\ targetSeconds = MaxSeconds
    /\ targetMinutes = 0

\* ------------------------------------------------------------------------
\* C23 - the snapshot taken when playback begins to run
\* ------------------------------------------------------------------------
\* C23: every step in which isPlaying turns from false to true, after a
\* start, a resume or a restart, also stores the position snapshot measured
\* in that step.
C23_RunningBeginsWithFreshSnapshot ==
    [][(~isPlaying /\ isPlaying') => wordPositions' = measureWordPositions]_vars

\* Playback running after a resume, on the measured snapshot of the tokens.
C23_Witness ==
    /\ isPlaying
    /\ lastCmd = "resume"
    /\ pausedFrom = "running"
    /\ Len(wordPositions) = Len(allWords)
    /\ wordPositions = measureWordPositions

\* ------------------------------------------------------------------------
\* C27 - pending runAnimation frames
\* ------------------------------------------------------------------------
\* The pending frames whose callback is runAnimation.
PendingRunAnimation == {i \in 1..Len(rafs) : rafs[i].kind = "runAnimation"}

\* C27: at most one runAnimation callback is pending at any time, and none
\* is pending while isPlaying is false.
C27_OneRunAnimationPending ==
    /\ Cardinality(PendingRunAnimation) <= 1
    /\ ~isPlaying => PendingRunAnimation = {}

\* Playback running after a sample: runAnimation has run and requested
\* itself again, and that frame is the one pending.
C27_Witness ==
    /\ isPlaying
    /\ sampledInRun
    /\ Cardinality(PendingRunAnimation) = 1
    /\ \E i \in PendingRunAnimation : rafs[i].id = animationRef

\* ------------------------------------------------------------------------
\* C25 - the countdown before playback runs
\* ------------------------------------------------------------------------
\* C25: every step that turns isPlaying from false to true comes no earlier
\* than three seconds after the most recent start, resume or restart
\* command, when the countdown of that command has run to its end; and
\* isPlaying is never true while the countdown indicator is non-null.
C25_CountdownPrecedesRunning ==
    [][/\ (~isPlaying /\ isPlaying') =>
              (commandAt # Null /\ now >= commandAt + DelayT3)
       /\ isPlaying' => countdown' = Null]_vars

\* ------------------------------------------------------------------------
\* Playback under an event loop that runs every due timer and every
\* requested frame
\* ------------------------------------------------------------------------
\* A due setTimeout callback runs.
TimerFires ==
    \/ TimerSetCountdown
    \/ TimerResumeScroll
    \/ StartT3
    \/ ResumeT3
    \/ RestartT3

\* The first requested animation frame runs.
FrameRuns ==
    \/ startPlayback
    \/ ResumeFrame
    \/ RestartFrame
    \/ runAnimation

\* A timer is due: TimerFires is enabled.
TimerDue == \E k \in 1..Len(timers) : timers[k].due <= now

\* A frame is requested: FrameRuns is enabled.
FramePending == Len(rafs) > 0

\* The number of commands the user gives in a session of SpecLive.
LiveCmds == 3

LiveStart == nCmds < LiveCmds /\ handleStart

LivePause == nCmds < LiveCmds /\ handlePause

LiveResume == nCmds < LiveCmds /\ handleResume

LiveRestart == nCmds < LiveCmds /\ handleRestart

LiveExit == nCmds < LiveCmds /\ handleExit

NextLive ==
    \/ LiveStart
    \/ LivePause
    \/ LiveResume
    \/ LiveRestart
    \/ LiveExit
    \/ TimerSetCountdown
    \/ TimerResumeScroll
    \/ StartT3
    \/ ResumeT3
    \/ RestartT3
    \/ startPlayback
    \/ ResumeFrame
    \/ RestartFrame
    \/ runAnimation
    \/ Tick

\* The event loop: the clock advances, a timer that stays due eventually
\* fires, and a frame that stays requested eventually runs.  The last two
\* are the weak fairness of TimerFires and of FrameRuns, written with
\* TimerDue and FramePending for their enabling conditions.
SpecLive ==
    /\ Init
    /\ [][NextLive]_vars
    /\ WF_vars(Tick)
    /\ ([]<>(~TimerDue) \/ []<><<TimerFires>>_vars)
    /\ ([]<>(~FramePending) \/ []<><<FrameRuns>>_vars)

\* ------------------------------------------------------------------------
\* C26 - playback begins after the last command
\* ------------------------------------------------------------------------
\* The last command was a start with tokens, a resume of a started
\* playback or a restart, given early enough for its countdown to end
\* before the clock of the model stops.  Only a further command can make
\* this false again.
CountdownCommanded ==
    /\ lastCmd \in {"start", "resume", "restart"}
    /\ Len(allWords) > 0
    /\ ~showInput
    /\ currentWordIndex >= 0
    /\ commandAt + DelayT3 <= MaxNow

\* C26: after a start with tokens, a resume or a restart that no further
\* command follows, playback eventually is Running and a sample has been
\* taken: at any time there is a later time at which the last command is
\* not such a command or playback is Running and sampled.
C26_PlaybackEventuallyRuns ==
    []<>(~CountdownCommanded \/ (isPlaying /\ sampledInRun))

\* Running and sampled after a resume that was the last command.
C26_Witness ==
    /\ CountdownCommanded
    /\ lastCmd = "resume"
    /\ isPlaying
    /\ sampledInRun
    /\ countdown = Null
    /\ timers = <<>>

\* ------------------------------------------------------------------------
\* Typing emphasis marks into the script field
\* ------------------------------------------------------------------------
\* Longest run of keys typed.
MaxKeys == 4

\* The keys typed: the two emphasis marks, a letter, a blank, a line break.
Keys == {"*", "_", "a", " ", NL}

\* "[A]:\n" : the header of a section of speaker A
HeaderA == <<"[", "A", "]", ":", NL>>

\* The textarea's onChange (line 1252) after one key was typed at the end of
\* the script; nCmds counts the keys.
TypeKey ==
    /\ nCmds < MaxKeys
    /\ \E key \in Keys : script' = Append(script, key)
    /\ probe' = NoProbe
    /\ UNCHANGED <<targetMinutes, targetSeconds, speakerSpeeds>>
    /\ RenderMemos
    /\ nCmds' = nCmds + 1
    /\ UNCHANGED <<playVars, now, lastCmd, commandAt, pausedFrom, pausedElapsed, sampledInRun,
                   countdownDoneAt>>

\* The input screen with an empty script field or with the header of a
\* section already in it.
InitMarkup ==
    /\ script \in {<<>>, HeaderA}
    /\ probe = NoProbe
    /\ allWords = AllWordsMemo(script)
    /\ targetMinutes = 0
    /\ targetSeconds = TargetSecs
    /\ speakerSpeeds = <<>>
    /\ wordTimings = WordTimingsMemo
    /\ wordStartTimes = WordStartTimesMemo(wordTimings)
    /\ IdleView

SpecMarkup == InitMarkup /\ [][TypeKey \/ updateSpeakerSpeed]_vars

\* ------------------------------------------------------------------------
\* C31
\* ------------------------------------------------------------------------
\* C31: getWordWeight returns at least 1.0 for the text of every token (the
\* empty text and texts without letters included) with either line-break
\* flag, the weight of every token after the division by a positive speed
\* is strictly positive, and the weight of a token is the weight of its
\* text without the pause, plus 1.0 exactly when the token is not the last
\* one and the token after it has isLineStart = true, divided by the speed
\* of its speaker.
C31_WeightAtLeastOneAndPauseBeforeLineStart ==
    \A i \in 1..Len(allWords) :
        LET text == allWords[i].text
            speed == getSpeakerSpeed(allWords[i].speaker)
            pause == IF i # Len(allWords) /\ allWords[i + 1].isLineStart
                     THEN RatInt(1) ELSE RatInt(0)
        IN  /\ \A flag \in BOOLEAN : RatLE(RatInt(1), getWordWeight(text, flag))
            /\ RatLT(RatInt(0), speed) => RatLT(RatInt(0), WordWeights[i])
            /\ WordWeights[i] = RatDiv(RatAdd(getWordWeight(text, FALSE), pause), speed)

\* A token with empty text of a speaker slowed to 0.5 stands before a line
\* break, and a later token is followed by no line break.
C31_Witness ==
    \E i \in 1..Len(allWords) :
        /\ allWords[i].text = <<>>
        /\ i < Len(allWords)
        /\ allWords[i + 1].isLineStart
        /\ getSpeakerSpeed(allWords[i].speaker) = Rat(1, 2)
        /\ WordWeights[i] = RatInt(4)
        /\ WordWeights[Len(allWords)] = RatInt(2)

\* ------------------------------------------------------------------------
\* Calls of estimateSyllables
\* ------------------------------------------------------------------------
\* Longest word built from SyllableLetters.
MaxWordLen == 4

\* Two vowels, two consonants, a capital and a character that is no letter.
SyllableLetters == {"a", "e", "l", "b", "E", "'"}

\* The words estimateSyllables is called with: every word of at most
\* MaxWordLen characters of SyllableLetters, and "the", "hello", "simple",
\* "rhythm".
SyllableWords ==
    UNION {[1..n -> SyllableLetters] : n \in 0..MaxWordLen}
    \cup {<<"t","h","e">>, <<"h","e","l","l","o">>, <<"s","i","m","p","l","e">>,
          <<"r","h","y","t","h","m">>}

\* A call estimateSyllables(word); the function keeps no state, so one call
\* is followed per behaviour.
ProbeSyllables ==
    /\ probe = NoProbe
    /\ \E word \in SyllableWords :
          probe' = [fn |-> "estimateSyllables", word |-> word,
                    syllables |-> estimateSyllables(word)]
    /\ UNCHANGED <<script, allWords, targetMinutes, targetSeconds, speakerSpeeds,
                   wordTimings, wordStartTimes>>
    /\ UNCHANGED <<playVars, now, histVars>>

InitSyllables == InitInput /\ script = <<>> /\ targetSeconds = TargetSecs

SpecSyllables == InitSyllables /\ [][ProbeSyllables]_vars

\* ------------------------------------------------------------------------
\* C32
\* ------------------------------------------------------------------------
\* The letters of a word, lower-cased.
LettersOf(word) == SelectSeq([i \in 1..Len(word) |-> ToLower(word[i])], IsLower)

\* The number of vowel runs of w (counted at the last vowel of each run),
\* minus 1 if w ends in "e" and the number exceeds 1, then plus 1 if w ends
\* in "le" after a letter that is no vowel; w has more than three letters.
AdjustedVowelRuns(w) ==
    LET n == Len(w)
        runs == Cardinality({i \in 1..n :
                    w[i] \in Vowels /\ (i = n \/ w[i + 1] \notin Vowels)})
        afterE == IF w[n] = "e" /\ runs > 1 THEN runs - 1 ELSE runs
    IN  IF SubSeq(w, n - 1, n) = <<"l", "e">> /\ w[n - 2] \notin Vowels
        THEN afterE + 1 ELSE afterE

\* C32 as stated: estimateSyllables returns an integer >= 1, exactly 1 when
\* the letters-only word has at most three letters, and otherwise the
\* adjusted number of vowel runs itself.
C32_ResultIsAdjustedVowelRuns ==
    probe.fn = "estimateSyllables" =>
        LET w == LettersOf(probe.word)
        IN  /\ probe.syllables \in Nat /\ probe.syllables >= 1
            /\ Len(w) <= 3 => probe.syllables = 1
            /\ Len(w) > 3 => probe.syllables = AdjustedVowelRuns(w)

\* C32 (amended): estimateSyllables returns an integer >= 1, exactly 1 when
\* the letters-only word has at most three letters, and otherwise the
\* larger of 1 and the number of vowel runs, minus 1 if the word ends in "e"
\* and the number exceeds 1, then plus 1 if the word ends in "le" after a
\* non-vowel; "the" gives 1, "hello" 2 and "simple" 2.
C32_ResultIsAdjustedVowelRunsFlooredAtOne ==
    probe.fn = "estimateSyllables" =>
        LET w == LettersOf(probe.word)
        IN  /\ probe.syllables \in Nat /\ probe.syllables >= 1
            /\ Len(w) <= 3 => probe.syllables = 1
            /\ Len(w) > 3 => probe.syllables = Max(1, AdjustedVowelRuns(w))
            /\ probe.word = <<"t","h","e">> => probe.syllables = 1
            /\ probe.word = <<"h","e","l","l","o">> => probe.syllables = 2
            /\ probe.word = <<"s","i","m","p","l","e">> => probe.syllables = 2

\* "simple" was estimated: two vowel runs, one taken off for the final "e",
\* one added for "ple".
C32_Witness ==
    /\ probe.fn = "estimateSyllables"
    /\ probe.word = <<"s","i","m","p","l","e">>
    /\ AdjustedVowelRuns(probe.word) = 2
    /\ probe.syllables = 2

\* ------------------------------------------------------------------------
\* C33
\* ------------------------------------------------------------------------
\* The whitespace-delimited fragments of the typed script, in order: the
\* script after the header of the section, split at blanks and line breaks.
ScriptFragments ==
    LineWords(IF StartsWith(script, HeaderA)
              THEN Slice(script, Len(HeaderA) + 1, Len(script))
              ELSE script)

\* Fragments made of emphasis marks only.
BareMarks == {<<"*">>, <<"_">>, <<"*", "*">>, <<"_", "_">>, <<"*", "*", "*", "*">>}

\* f has the mark m (one or two characters) at both ends around at least
\* one character.
Wraps(f, m) == Len(f) > 2 * Len(m) /\ StartsWith(f, m) /\ EndsWith(f, m)

\* C33: every whitespace-delimited fragment of the script gives one token;
\* the token has non-empty display text, is bold only when the fragment has
\* "**" or "__" at both ends around at least one character, is italic only
\* when the fragment has "*" or "_" at both ends around at least one
\* character, and the fragments "*", "_", "**", "__" and "****" are kept as
\* they are with bold = italic = false.
C33_TokensHaveTextAndMarksWrapText ==
    /\ Len(allWords) = Len(ScriptFragments)
    /\ \A i \in 1..Len(allWords) :
          LET f == ScriptFragments[i]
              token == allWords[i]
          IN  /\ token.text # <<>>
              /\ token.bold => Wraps(f, <<"*", "*">>) \/ Wraps(f, <<"_", "_">>)
              /\ token.italic => Wraps(f, <<"*">>) \/ Wraps(f, <<"_">>)
              /\ f \in BareMarks =>
                    token.text = f /\ ~token.bold /\ ~token.italic

\* Every fragment gives one token whose text is what parseWordFormatting
\* returns for the fragment.
FragmentsAreTokens ==
    /\ Len(allWords) = Len(ScriptFragments)
    /\ \A i \in 1..Len(allWords) :
          allWords[i].text = parseWordFormatting(ScriptFragments[i]).text

====
